---- MODULE Spec2Model ----
(***************************************************************************)
(* State-machine model of the SketchPad drawing engine                     *)
(* (src/src/components/ui/NotesList.tsx, lines 90-843, and the sketch      *)
(* types of src/unnamed/part_005).                                         *)
(*                                                                         *)
(* Refs and React state of the component are the variables; every event    *)
(* handler is one action.  World and screen coordinates are integers, the  *)
(* canvas origin (getBoundingClientRect) is (0,0).                         *)
(***************************************************************************)
EXTENDS Integers, Sequences, FiniteSets, TLC

\* ------------------------------------------------------------------ bounds
\* pushes allowed in one behaviour (caps history growth and id generation)
MaxPushes == 1
\* points a pen buffer may hold before further samples are dropped
MaxPoints == 2
\* bound on |panOffset.x| and |panOffset.y|
MaxPan == 20
\* clear-canvas commits that precede the start state of SpecCap
PreCommits == 50
\* largest canvas width and height a resize drag is followed to
MaxCanvas == 600
\* tool changes made while the pointer is down, per behaviour
MaxSwitches == 1
\* undo is followed until this many entries lie ahead of the current one
MaxUndoDepth == 3
\* the clock of the rate limiter stops here
MaxNow == 5
\* changes of the content of the open note, per behaviour
MaxEdits == 3

\* ------------------------------------------------------- program constants
MIN_CANVAS_WIDTH == 200
MIN_CANVAS_HEIGHT == 150
MAX_HISTORY == 50
DEFAULT_PEN_WIDTH == 2
DEFAULT_FONT_SIZE == 16
ERASER_PROXIMITY == 10
\* advance width of one character of the 16px sans-serif font (measureText)
CHAR_WIDTH == 8

NULL == [null |-> TRUE]

Tools == {"pen", "eraser", "text", "move", "pan"}
\* One behaviour follows a user who works with one group of affordances: the
\* tools of SessionTools, the colour buttons, the resize handle.  Undo, redo,
\* clear and the keyboard shortcuts belong to every session.
Sessions == {"draw", "colour", "write", "view", "resize"}
SessionTools(s) ==
  CASE s = "draw" -> {"pen", "eraser"}
    [] s = "colour" -> {"pen"}
    [] s = "write" -> {"text", "move"}
    [] s = "view" -> {"pan", "eraser"}
    [] s = "resize" -> {}
    [] s = "probe" -> {"eraser", "move"}
    [] s = "reopened" -> {}
\* the sessions in which the host switches between the light and dark theme
SessionThemes(s) == s = "view"
\* the sessions that change the tool while the pointer is down
SessionSwitches(s) == s \in {"draw", "write", "view"}
\* the sessions that open a note with a stored sketch; the others open a
\* note without sketch data or with data that is not a sketch
SessionOpensSketch(s) == s \in {"view", "resize"}
\* the active colours offered to handleColorChange (a subset of COLORS)
Colors == {"#000000", "#2563eb"}

Pt(x, y) == [x |-> x, y |-> y]
\* clientX/clientY of the pointer events
ScreenPoints == {Pt(0, 0), Pt(20, 0)}
\* clientX/clientY of the clicks of the "probe" session, which opens a sketch
\* of one stroke with sampled points from ProbeStrokePoints, or a sketch of
\* strokes and text elements that overlap
ProbePoints == {Pt(10, 0), Pt(17, 0), Pt(25, 0), Pt(20, 0), Pt(16, 8), Pt(18, 7)}
ProbeStrokePoints == {Pt(10, 0), Pt(-30, 0)}
DownPoints(s) == IF s = "probe" THEN ProbePoints ELSE ScreenPoints
\* clientX/clientY of the pointer-move samples that extend a pen stroke
PenSamples == {Pt(20, 0)}
\* values typed into the text editor, as character sequences
TextValues == {<<>>, <<" ">>, <<" ", "H", "i">>}
\* pointer positions offered to the resize drag
ResizePoints == {Pt(0, 0), Pt(-500, -500)}

createEmptyState(width, height) ==
  [strokes |-> <<>>, textElements |-> <<>>,
   canvasWidth |-> width, canvasHeight |-> height]

\* ------------------------------------------------------------ JSON encoding
\* JSON.stringify of a SketchState: the four fields in order, every stroke
\* and text element as a tuple of its fields, every point as <<x, y>>.
EncPoint(p) == <<p.x, p.y>>
EncStroke(s) ==
  <<s.id, [i \in 1..Len(s.points) |-> EncPoint(s.points[i])], s.color, s.width>>
EncText(t) == <<t.id, t.text, EncPoint(t.position), t.color, t.fontSize>>
JSONStringify(state) ==
  <<"doc",
    [i \in 1..Len(state.strokes) |-> EncStroke(state.strokes[i])],
    [i \in 1..Len(state.textElements) |-> EncText(state.textElements[i])],
    state.canvasWidth, state.canvasHeight>>

\* a parse that takes the coordinates of a point in the wrong order
DecPointSwapped(e) == [x |-> e[2], y |-> e[1]]
DecPoint(e) == [x |-> e[1], y |-> e[2]]
DecStroke(e) ==
  [id |-> e[1], points |-> [i \in 1..Len(e[2]) |-> DecPoint(e[2][i])],
   color |-> e[3], width |-> e[4]]
DecText(e) ==
  [id |-> e[1], text |-> e[2], position |-> DecPoint(e[3]),
   color |-> e[4], fontSize |-> e[5]]
\* JSON.parse of a string that encodes a SketchState
JSONParse(json) ==
  [strokes |-> [i \in 1..Len(json[2]) |-> DecStroke(json[2][i])],
   textElements |-> [i \in 1..Len(json[3]) |-> DecText(json[3][i])],
   canvasWidth |-> json[4], canvasHeight |-> json[5]]

\* JSON.parse(JSON.stringify(state)): the deep clone of pushHistory and undo
DeepClone(state) == JSONParse(JSONStringify(state))

\* String.prototype.trim on a character sequence
RECURSIVE TrimLeft(_)
TrimLeft(s) == IF s # <<>> /\ Head(s) = " " THEN TrimLeft(Tail(s)) ELSE s
RECURSIVE TrimRight(_)
TrimRight(s) ==
  IF s # <<>> /\ s[Len(s)] = " " THEN TrimRight(SubSeq(s, 1, Len(s) - 1)) ELSE s
Trim(s) == TrimRight(TrimLeft(s))

\* --------------------------------------------------------------- load input
\* sketchData prop: null, an unparseable string, the string "null", the
\* string "{}", or the serialization of a document
LoadedDoc ==
  [strokes |-> <<[id |-> 101, points |-> <<Pt(0, 0), Pt(10, 0)>>,
                  color |-> "#dc2626", width |-> 2]>>,
   textElements |-> <<[id |-> 102, text |-> <<"H", "i", "!">>, position |-> Pt(20, 0),
                       color |-> "#000000", fontSize |-> 16]>>,
   canvasWidth |-> 300, canvasHeight |-> 200]
\* a stored sketch whose canvas is smaller than the minimum (the notes API
\* stores any sketch_data string it is sent)
SmallDoc ==
  [strokes |-> <<>>, textElements |-> <<>>,
   canvasWidth |-> 100, canvasHeight |-> 100]
SketchDataInputs ==
  {<<"none">>, <<"garbage">>, <<"null">>, <<"{}">>, JSONStringify(LoadedDoc),
   JSONStringify(SmallDoc)}

\* ---------------------------------------------------------------- rendering
\* the strokes that are drawn: those of two or more points
drawnStrokes(state) == SelectSeq(state.strokes, LAMBDA s : Len(s.points) >= 2)

\* a display colour that turns every colour white in the dark theme
getDisplayColorAll(color, dark) ==
  IF dark THEN "#ffffff" ELSE color

\* getDisplayColor (lines 419-422): black is shown as white in the dark theme
getDisplayColor(color, dark) ==
  IF dark /\ color = "#000000" THEN "#ffffff" ELSE color

\* the colours renderCommitted (lines 204-246) paints with: the background,
\* every drawn stroke and every text element in its display colour
renderColors(state, dark) ==
  [background |-> IF dark THEN "#1f2937" ELSE "#ffffff",
   strokes |-> [i \in 1..Len(drawnStrokes(state)) |->
                  getDisplayColor(drawnStrokes(state)[i].color, dark)],
   texts |-> [i \in 1..Len(state.textElements) |->
                getDisplayColor(state.textElements[i].color, dark)]]

\* the colours of the image notifyChange (lines 289-327) exports: a white
\* background, every drawn stroke and every text element in its stored colour
exportRaster(state) ==
  [background |-> "#ffffff",
   strokes |-> [i \in 1..Len(drawnStrokes(state)) |->
                  drawnStrokes(state)[i].color],
   texts |-> [i \in 1..Len(state.textElements) |->
                state.textElements[i].color]]

VARIABLES
  stateRef,            \* stateRef.current: the live SketchState
  historyRef,          \* historyRef.current: sequence of snapshots
  historyIndexRef,     \* historyIndexRef.current (0-based)
  isDrawingRef,
  currentStrokeRef,    \* buffered points of the pen stroke in progress
  activeToolRef,
  activeColorRef,
  panStartRef,
  panOffsetRef,
  movingTextRef,
  textInput,           \* React state: NULL or the open text editor
  canvasSize,          \* React state canvasSize (latest setCanvasSize)
  canvasSizeRef,
  sizePending,         \* a setCanvasSize of a resize move awaits its render
  isResizingRef,
  resizeStartRef,
  initialLoadDoneRef,
  crashed,             \* the load effect threw: the component is gone
  pointer,             \* environment: "up", or where the pointer went down
  session,             \* environment: the affordances this behaviour uses
  switches,            \* tool changes made with the pointer down (MaxSwitches)
  nextId,              \* generateId(): next fresh id
  budget,              \* pushes still allowed (MaxPushes bound)
  commits,             \* pushHistory calls since the document was created
  undone,              \* an effective undo has happened
  lastOp,              \* handler (and branch) of the last step
  lastPoint,           \* clientX/clientY of the last step, if a pointer-down or move
  downOp,              \* handler branch of the pointer-down not yet released
  panDown,             \* screen point and pan offset of that pointer-down, if it was a pan
  isDarkMode,          \* prop isDarkMode
  overlay,             \* overlay canvas: NULL (clear) or the stroke drawn on it
  pushes,              \* pushHistory calls made by the last step
  emits,               \* notifyChange calls made by the last step
  emitted,             \* serialized document of the last onChange call
  savedDoc,            \* live document just before the last effective undo
  emittedDoc,          \* live document that the last onChange call serialized
  raster,              \* colours of the image of the last onChange call
  committedCanvas,     \* colours the committed canvas shows, NULL before a render
  aliased,             \* positions of the history entries that are the very
                       \* object stateRef.current refers to
  dropped,             \* NULL, or what the last document switch unmounted: the
                       \* live document, the log, the pan offset, an open editor
  savedData,           \* NULL, or the sketch data the host opens: the string and
                       \* the document it was serialized from
  propChanged          \* the host has changed the sketchData prop since the mount

\* the notes API behind the host: the notes table, the images table, the last
\* request handled and its response
VARIABLES
  notes,               \* note id -> NULL (no row) or the row of the notes table
  images,              \* note ids that have a row in the images table
  request,             \* NULL, or the last request: route, caller, note id
  response,            \* NULL, or the response to it: status and body
  usedIds              \* ids that uuidv4 has handed out

notesVars == <<notes, images, request, response, usedIds>>

\* the rate limiter of the auth routes
VARIABLES
  ipRequests,          \* ip -> NULL (no entry of the Map) or count and resetTime
  now,                 \* Date.now()
  limited              \* NULL, or the last call of rateLimit and its result;
                       \* renewed: the call replaced an entry whose window was over

limitVars == <<ipRequests, now, limited>>

\* the users and the password reset of the auth routes
VARIABLES
  users,               \* user id -> the row of the users table
  resetTokens,         \* token -> NULL or the row of password_reset_tokens
  cookies,             \* the session tokens that login has signed, each with
                       \* the number of resets of its user at that time
  authed,              \* NULL, or the last auth request and its status
  resetCount           \* token -> the number of successful resets made with it

authVars == <<users, resetTokens, cookies, authed, resetCount>>

\* the middleware in front of the routes
VARIABLES
  mwRequest,           \* NULL, or the last request the middleware has seen
  mwResponse           \* NULL, or what the middleware answered

mwVars == <<mwRequest, mwResponse>>

\* the autosave hook of the workspace of one note
VARIABLES
  workspaceMounted,    \* ResizableWorkspace is mounted for the note
  workspaceContent,    \* the content state of the workspace
  lastSavedRef,        \* the content of lastSavedRef.current
  timerRef,            \* NULL, or the pending debounce timer: the content that
                       \* the save callback it will call has closed over
  abortRef,            \* NULL, or the save request in flight and its content
  saveStatus,          \* the status the hook returns
  stored,              \* the content of the note on the server
  sent,                \* the content the server was last sent for the note:
                       \* that of the last save request, or what was loaded
  edited,              \* the content as the user last left it
  edits                \* changes of the content made so far

saveVars == <<workspaceMounted, workspaceContent, lastSavedRef, timerRef,
              abortRef, saveStatus, stored, sent, edited, edits>>

\* what lies outside the sketch engine
serverVars == <<notesVars, limitVars, authVars, mwVars, saveVars>>

\* datetime('now') as a mark that is not NULL
Now == [datetime |-> "now"]

UserIds == {"u1", "u2"}

TokenIds == {"t1"}

\* hashSync and compareSync of bcryptjs: a hash verifies the password it was
\* made from and no other
hashPassword(password) == [bcrypt |-> password]

verifyPassword(password, hash) == hash = [bcrypt |-> password]

Ips == {"ip-a", "ip-b"}

\* ids of notes that requests name: the ids uuidv4 hands out
NoteIds == {"n1", "n2"}

\* the database of a new installation
ServerInit ==
  /\ notes = [id \in NoteIds |-> NULL]
  /\ images = {}
  /\ request = NULL
  /\ response = NULL
  /\ usedIds = {}
  /\ ipRequests = [ip \in Ips |-> NULL]
  /\ now = 0
  /\ limited = NULL
  /\ users = [id \in UserIds |->
                [email |-> id \o "@test.com", password_hash |-> hashPassword("password-a"),
                 token_version |-> 0]]
  /\ resetTokens = [token \in TokenIds |-> NULL]
  /\ cookies = {}
  /\ authed = NULL
  /\ resetCount = [token \in TokenIds |-> 0]
  /\ mwRequest = NULL
  /\ mwResponse = NULL
  /\ workspaceMounted = TRUE
  /\ workspaceContent = ""
  /\ lastSavedRef = ""
  /\ timerRef = NULL
  /\ abortRef = NULL
  /\ saveStatus = "idle"
  /\ stored = ""
  /\ sent = ""
  /\ edited = ""
  /\ edits = 0

sketchVars == <<stateRef, historyRef, historyIndexRef, isDrawingRef, currentStrokeRef,
          activeToolRef, activeColorRef, panStartRef, panOffsetRef,
          movingTextRef, textInput, canvasSize, canvasSizeRef, sizePending,
          isResizingRef, resizeStartRef, initialLoadDoneRef, crashed, pointer,
          session, switches, nextId, budget, commits, undone, lastOp, lastPoint,
          downOp, panDown, isDarkMode, overlay, pushes, emits, emitted,
          savedDoc, emittedDoc, raster, committedCanvas, aliased, savedData, dropped,
          propChanged>>

vars == <<sketchVars, serverVars>>

\* variables of the engine proper
engineVars == <<stateRef, historyRef, historyIndexRef, isDrawingRef,
                currentStrokeRef, activeToolRef, activeColorRef, panStartRef,
                panOffsetRef, movingTextRef, textInput, canvasSize,
                canvasSizeRef, sizePending, isResizingRef, resizeStartRef>>

Size(w, h) == [width |-> w, height |-> h]

\* refs and state as the component function initializes them (lines 125-160)
Init ==
  /\ stateRef = createEmptyState(600, 400)
  /\ historyRef = <<createEmptyState(600, 400)>>
  /\ historyIndexRef = 0
  /\ isDrawingRef = FALSE
  /\ currentStrokeRef = <<>>
  /\ activeToolRef = "pen"
  /\ activeColorRef = "#000000"
  /\ panStartRef = NULL
  /\ panOffsetRef = Pt(0, 0)
  /\ movingTextRef = NULL
  /\ textInput = NULL
  /\ canvasSize = Size(600, 400)
  /\ canvasSizeRef = Size(600, 400)
  /\ sizePending = FALSE
  /\ isResizingRef = FALSE
  /\ resizeStartRef = NULL
  /\ initialLoadDoneRef = FALSE
  /\ crashed = FALSE
  /\ pointer = "up"
  /\ session \in Sessions
  /\ switches = 0
  /\ nextId = 1
  /\ budget = MaxPushes
  /\ commits = 0
  /\ undone = FALSE
  /\ lastOp = "init"
  /\ lastPoint = NULL
  /\ downOp = "none"
  /\ panDown = NULL
  /\ isDarkMode = FALSE
  /\ overlay = NULL
  /\ pushes = 0
  /\ emits = 0
  /\ emitted = <<>>
  /\ savedDoc = NULL
  /\ emittedDoc = NULL
  /\ raster = NULL
  /\ aliased = {}
  /\ savedData = NULL
  /\ dropped = NULL
  /\ propChanged = FALSE
  /\ ServerInit
  /\ committedCanvas = IF initialLoadDoneRef
                         THEN renderColors(stateRef, isDarkMode)
                         ELSE NULL

\* the sessions that are followed from a history close to MAX_HISTORY
CapSessions == {"write", "resize"}

\* the document a session finds after its load effect
SessionDoc(s) ==
  IF SessionOpensSketch(s) THEN LoadedDoc ELSE createEmptyState(600, 400)
ClearedDoc(s) ==
  createEmptyState(SessionDoc(s).canvasWidth, SessionDoc(s).canvasHeight)

\* a state near the history cap: the component after its load effect and
\* PreCommits clicks on "Clear" (handleClear), each of which pushed the
\* cleared document; the tool changes with the pointer down lie behind it
InitCap ==
  /\ session \in CapSessions
  /\ stateRef = ClearedDoc(session)
  /\ LET all == [i \in 1..(PreCommits + 1) |->
                  IF i = 1 THEN SessionDoc(session) ELSE ClearedDoc(session)]
     IN historyRef = IF Len(all) > MAX_HISTORY
                       THEN SubSeq(all, Len(all) - MAX_HISTORY + 1, Len(all))
                       ELSE all
  /\ historyIndexRef = Len(historyRef) - 1
  /\ isDrawingRef = FALSE
  /\ currentStrokeRef = <<>>
  /\ activeToolRef = "pen"
  /\ activeColorRef = "#000000"
  /\ panStartRef = NULL
  /\ panOffsetRef = Pt(0, 0)
  /\ movingTextRef = NULL
  /\ textInput = NULL
  /\ canvasSize = Size(stateRef.canvasWidth, stateRef.canvasHeight)
  /\ canvasSizeRef = Size(stateRef.canvasWidth, stateRef.canvasHeight)
  /\ sizePending = FALSE
  /\ isResizingRef = FALSE
  /\ resizeStartRef = NULL
  /\ initialLoadDoneRef = TRUE
  /\ crashed = FALSE
  /\ pointer = "up"
  /\ switches = MaxSwitches
  /\ nextId = 1
  /\ budget = MaxPushes
  /\ commits = PreCommits
  /\ undone = FALSE
  /\ lastOp = "clear"
  /\ lastPoint = NULL
  /\ downOp = "none"
  /\ panDown = NULL
  /\ isDarkMode = FALSE
  /\ overlay = NULL
  /\ pushes = 1
  /\ emits = 1
  /\ emitted = JSONStringify(stateRef)
  /\ savedDoc = NULL
  /\ emittedDoc = stateRef
  /\ raster = exportRaster(stateRef)
  /\ aliased = {}
  /\ savedData = NULL
  /\ dropped = NULL
  /\ propChanged = FALSE
  /\ ServerInit
  /\ committedCanvas = IF initialLoadDoneRef
                         THEN renderColors(stateRef, isDarkMode)
                         ELSE NULL

\* the sketches of the "probe" session
ProbeDoc(a, b) ==
  [strokes |-> <<[id |-> 101, points |-> <<a, b>>,
                  color |-> "#000000", width |-> DEFAULT_PEN_WIDTH]>>,
   textElements |-> <<>>,
   canvasWidth |-> 300, canvasHeight |-> 200]

StackDoc ==
  [strokes |-> <<[id |-> 101, points |-> <<Pt(10, 0), Pt(10, 0)>>,
                  color |-> "#000000", width |-> DEFAULT_PEN_WIDTH],
                 [id |-> 102, points |-> <<Pt(30, 0), Pt(30, 0)>>,
                  color |-> "#2563eb", width |-> DEFAULT_PEN_WIDTH]>>,
   textElements |-> <<[id |-> 103, text |-> <<"H", "i">>, position |-> Pt(10, 0),
                       color |-> "#000000", fontSize |-> DEFAULT_FONT_SIZE],
                      [id |-> 104, text |-> <<"H", "i">>, position |-> Pt(17, 0),
                       color |-> "#2563eb", fontSize |-> DEFAULT_FONT_SIZE]>>,
   canvasWidth |-> 300, canvasHeight |-> 200]
ProbeDocs ==
  {ProbeDoc(a, b) : a \in ProbeStrokePoints, b \in ProbeStrokePoints}
    \cup {StackDoc}

\* the "probe" session after its load effect and the choice of the eraser
InitHit ==
  /\ session = "probe"
  /\ stateRef \in ProbeDocs
  /\ historyRef = <<stateRef>>
  /\ historyIndexRef = 0
  /\ isDrawingRef = FALSE
  /\ currentStrokeRef = <<>>
  /\ activeToolRef = "eraser"
  /\ activeColorRef = "#000000"
  /\ panStartRef = NULL
  /\ panOffsetRef = Pt(0, 0)
  /\ movingTextRef = NULL
  /\ textInput = NULL
  /\ canvasSize = Size(stateRef.canvasWidth, stateRef.canvasHeight)
  /\ canvasSizeRef = Size(stateRef.canvasWidth, stateRef.canvasHeight)
  /\ sizePending = FALSE
  /\ isResizingRef = FALSE
  /\ resizeStartRef = NULL
  /\ initialLoadDoneRef = TRUE
  /\ crashed = FALSE
  /\ pointer = "up"
  /\ switches = 0
  /\ nextId = 1
  /\ budget = MaxPushes
  /\ commits = 0
  /\ undone = FALSE
  /\ lastOp = "tool"
  /\ lastPoint = NULL
  /\ downOp = "none"
  /\ panDown = NULL
  /\ isDarkMode = FALSE
  /\ overlay = NULL
  /\ pushes = 0
  /\ emits = 0
  /\ emitted = <<>>
  /\ savedDoc = NULL
  /\ emittedDoc = NULL
  /\ raster = NULL
  /\ aliased = {}
  /\ savedData = NULL
  /\ dropped = NULL
  /\ propChanged = FALSE
  /\ ServerInit
  /\ committedCanvas = IF initialLoadDoneRef
                         THEN renderColors(stateRef, isDarkMode)
                         ELSE NULL

\* ------------------------------------------------------------------ helpers
Max(a, b) == IF a >= b THEN a ELSE b
MaxOf(S) == CHOOSE m \in S : \A n \in S : n <= m

\* generateId(): a random string; modelled as the next unused number
generateId == nextId

\* screenToWorld (lines 163-172) with the canvas at the origin
screenToWorld(screenX, screenY) ==
  Pt(screenX - panOffsetRef.x, screenY - panOffsetRef.y)

\* ctx.measureText(text).width for the fixed-pitch model font
TextWidth(text) == CHAR_WIDTH * Len(text)

\* hitTestText that returns the oldest text element whose box holds the point
hitTestTextOldest(worldX, worldY) ==
  LET elements == stateRef.textElements
      hits == {i \in 1..Len(elements) :
                 /\ worldX >= elements[i].position.x
                 /\ worldX <= elements[i].position.x + TextWidth(elements[i].text)
                 /\ worldY >= elements[i].position.y
                 /\ worldY <= elements[i].position.y + elements[i].fontSize}
  IN IF hits = {} THEN NULL ELSE elements[CHOOSE m \in hits : \A n \in hits : m <= n]

\* hitTestText (lines 425-450): topmost text element whose box holds the point
hitTestText(worldX, worldY) ==
  LET elements == stateRef.textElements
      hits == {i \in 1..Len(elements) :
                 /\ worldX >= elements[i].position.x
                 /\ worldX <= elements[i].position.x + TextWidth(elements[i].text)
                 /\ worldY >= elements[i].position.y
                 /\ worldY <= elements[i].position.y + elements[i].fontSize}
  IN IF hits = {} THEN NULL ELSE elements[MaxOf(hits)]

\* hitTestStroke that takes a distance of exactly ERASER_PROXIMITY for a miss
hitTestStrokeStrict(worldX, worldY) ==
  LET strokes == stateRef.strokes
      near(pt) == LET dx == worldX - pt.x
                      dy == worldY - pt.y
                  IN dx * dx + dy * dy < ERASER_PROXIMITY * ERASER_PROXIMITY
      hits == {i \in 1..Len(strokes) :
                 \E j \in 1..Len(strokes[i].points) : near(strokes[i].points[j])}
  IN IF hits = {} THEN NULL ELSE strokes[MaxOf(hits)]

\* hitTestStroke (lines 453-466): topmost stroke with a point within
\* ERASER_PROXIMITY; sqrt(d) <= 10 is d <= 100 on integers
hitTestStroke(worldX, worldY) ==
  LET strokes == stateRef.strokes
      near(pt) == LET dx == worldX - pt.x
                      dy == worldY - pt.y
                  IN dx * dx + dy * dy <= ERASER_PROXIMITY * ERASER_PROXIMITY
      hits == {i \in 1..Len(strokes) :
                 \E j \in 1..Len(strokes[i].points) : near(strokes[i].points[j])}
  IN IF hits = {} THEN NULL ELSE strokes[MaxOf(hits)]

\* pushHistory without the MAX_HISTORY cap
pushHistoryNoCap(history, index, state) ==
  LET truncated == SubSeq(history, 1, index + 1)
      pushed == Append(truncated, DeepClone(state))
  IN [h |-> pushed, i |-> index + 1]

\* pushHistory (lines 188-201): the new historyRef.current and
\* historyIndexRef.current
pushHistory(history, index, state) ==
  LET truncated == SubSeq(history, 1, index + 1)
      pushed == Append(truncated, DeepClone(state))
  IN IF Len(pushed) > MAX_HISTORY
       THEN [h |-> Tail(pushed), i |-> index]
       ELSE [h |-> pushed, i |-> index + 1]

\* renderCommitted (lines 204-246), with the theme of the current render
renderCommitted == committedCanvas' = renderColors(stateRef', isDarkMode)

\* notifyChange (lines 285-330): onChange(JSON.stringify(stateRef.current), png)
notifyChange ==
  /\ emits' = 1
  /\ emitted' = JSONStringify(stateRef')
  /\ emittedDoc' = stateRef'
  /\ raster' = exportRaster(stateRef')
noNotify == emits' = 0 /\ UNCHANGED <<emitted, emittedDoc, raster>>

\* clearOverlay (lines 249-256)
clearOverlay == overlay' = NULL

\* renderActiveStroke (lines 259-282): the overlay is cleared, and a buffer of
\* two or more points is drawn in the display colour
renderActiveStroke(points, color) ==
  overlay' = IF Len(points) < 2
               THEN NULL
               ELSE [points |-> points,
                     color |-> getDisplayColor(color, isDarkMode)]

\* a commit that takes its snapshot before the mutation
CommitStale(newState) ==
  /\ budget > 0
  /\ stateRef' = newState
  /\ LET r == pushHistory(historyRef, historyIndexRef, stateRef)
     IN historyRef' = r.h /\ historyIndexRef' = r.i
  /\ budget' = budget - 1
  /\ commits' = commits + 1
  /\ pushes' = 1
  /\ notifyChange

\* stateRef.current = newState; pushHistory(stateRef.current);
\* renderCommitted(); notifyChange()
Commit(newState) ==
  /\ budget > 0
  /\ stateRef' = newState
  /\ LET r == pushHistory(historyRef, historyIndexRef, newState)
     IN historyRef' = r.h /\ historyIndexRef' = r.i
  /\ budget' = budget - 1
  /\ commits' = commits + 1
  /\ pushes' = 1
  /\ notifyChange

noPush == pushes' = 0 /\ UNCHANGED <<historyRef, historyIndexRef, budget, commits>>

Mounted == initialLoadDoneRef /\ ~crashed

\* ------------------------------------------------------------------- load
\* "Load initial data" effect (lines 357-375)
LoadEffect(sketchData) ==
  /\ ~initialLoadDoneRef
  /\ lastPoint' = NULL
  /\ UNCHANGED <<downOp, panDown>>
  /\ UNCHANGED <<isDarkMode, savedData, dropped, propChanged, serverVars>>
  /\ overlay' = NULL
  /\ IF savedData = NULL
       THEN /\ sketchData[1] = "doc" <=> SessionOpensSketch(session)
            /\ sketchData = JSONStringify(SmallDoc) => session = "resize"
       ELSE sketchData = savedData.json
  /\ initialLoadDoneRef' = TRUE
  /\ lastOp' = "load"
  /\ aliased' = {}
  /\ noNotify
  /\ pushes' = 0
  /\ UNCHANGED <<isDrawingRef, currentStrokeRef, activeToolRef, activeColorRef,
                 panStartRef, panOffsetRef, movingTextRef, textInput,
                 sizePending, isResizingRef, resizeStartRef, pointer, nextId,
                 budget, commits, undone, savedDoc, session, switches>>
  /\ CASE sketchData[1] \in {"none", "garbage"} ->
            \* falsy prop, or JSON.parse throws into the empty catch
            /\ UNCHANGED <<stateRef, historyRef, historyIndexRef, canvasSize,
                           canvasSizeRef, crashed>>
            /\ renderCommitted
       [] sketchData[1] = "null" ->
            \* parsed = null is installed, parsed.canvasWidth throws into the
            \* catch, setupCanvasSize(stateRef.current.canvasWidth) throws
            /\ stateRef' = NULL
            /\ historyRef' = <<NULL>>
            /\ historyIndexRef' = 0
            /\ crashed' = TRUE
            /\ UNCHANGED <<canvasSize, canvasSizeRef, committedCanvas>>
       [] sketchData[1] = "{}" ->
            \* an object without strokes: renderCommitted throws on
            \* "for (const stroke of state.strokes)"
            /\ stateRef' = [object |-> "{}"]
            /\ historyRef' = <<[object |-> "{}"]>>
            /\ historyIndexRef' = 0
            /\ crashed' = TRUE
            /\ UNCHANGED <<canvasSize, canvasSizeRef, committedCanvas>>
       [] sketchData[1] = "doc" ->
            LET parsed == JSONParse(sketchData)
            IN /\ stateRef' = parsed
               /\ historyRef' = <<DeepClone(parsed)>>
               /\ historyIndexRef' = 0
               /\ canvasSize' = Size(parsed.canvasWidth, parsed.canvasHeight)
               /\ canvasSizeRef' = Size(parsed.canvasWidth, parsed.canvasHeight)
               /\ UNCHANGED crashed
               /\ renderCommitted

\* what every handler other than load and undo leaves alone
Other ==
  savedDoc' = NULL /\ UNCHANGED <<undone, initialLoadDoneRef, crashed, session>>
noSwitch == UNCHANGED switches

viewVars == <<canvasSize, canvasSizeRef, sizePending, isResizingRef, resizeStartRef>>

\* --------------------------------------------------------- pointer handlers
\* handlePointerDown whose eraser goes on to the text test after a stroke hit
handlePointerDownNoReturn(p) ==
  LET world == screenToWorld(p.x, p.y)
      tool == activeToolRef
      hitStroke == hitTestStroke(world.x, world.y)
      hitText == hitTestText(world.x, world.y)
  IN
  /\ Mounted
  /\ lastPoint' = p
  /\ activeToolRef \in SessionTools(session)
  /\ pointer = "up"
  /\ pointer' = "canvas"
  /\ Other /\ noSwitch
  /\ UNCHANGED viewVars
  /\ UNCHANGED <<activeToolRef, activeColorRef, panOffsetRef, nextId>>
  /\ \/ \* text input is visible: ignore
        /\ textInput # NULL
        /\ lastOp' = "down:ignored"
        /\ UNCHANGED aliased
        /\ UNCHANGED committedCanvas
        /\ noPush /\ noNotify
        /\ UNCHANGED <<stateRef, isDrawingRef, currentStrokeRef, panStartRef,
                       movingTextRef, textInput>>
     \/ /\ textInput = NULL
        /\ tool = "pen"
        /\ isDrawingRef' = TRUE
        /\ currentStrokeRef' = <<world>>
        /\ lastOp' = "down:pen"
        /\ UNCHANGED aliased
        /\ UNCHANGED committedCanvas
        /\ noPush /\ noNotify
        /\ UNCHANGED <<stateRef, panStartRef, movingTextRef, textInput>>
     \/ /\ textInput = NULL
        /\ tool = "eraser"
        /\ hitStroke # NULL
        /\ Commit([stateRef EXCEPT
                     !.strokes =
                       SelectSeq(stateRef.strokes, LAMBDA s : s.id # hitStroke.id),
                     !.textElements =
                       IF hitText = NULL THEN @
                       ELSE SelectSeq(@, LAMBDA t : t.id # hitText.id)])
        /\ lastOp' = "down:eraseStroke"
        /\ aliased' = {}
        /\ renderCommitted
        /\ UNCHANGED <<isDrawingRef, currentStrokeRef, panStartRef,
                       movingTextRef, textInput>>
     \/ /\ textInput = NULL
        /\ tool = "eraser"
        /\ hitStroke = NULL
        /\ hitText # NULL
        /\ Commit([stateRef EXCEPT !.textElements =
                     SelectSeq(stateRef.textElements, LAMBDA t : t.id # hitText.id)])
        /\ lastOp' = "down:eraseText"
        /\ aliased' = {}
        /\ renderCommitted
        /\ UNCHANGED <<isDrawingRef, currentStrokeRef, panStartRef,
                       movingTextRef, textInput>>
     \/ \* no hit: continuous erasing while dragging
        /\ textInput = NULL
        /\ tool = "eraser"
        /\ hitStroke = NULL
        /\ hitText = NULL
        /\ isDrawingRef' = TRUE
        /\ lastOp' = "down:eraserMiss"
        /\ UNCHANGED aliased
        /\ UNCHANGED committedCanvas
        /\ noPush /\ noNotify
        /\ UNCHANGED <<stateRef, currentStrokeRef, panStartRef, movingTextRef,
                       textInput>>
     \/ /\ textInput = NULL
        /\ tool = "text"
        /\ textInput' = [worldX |-> world.x, worldY |-> world.y, value |-> <<>>]
        /\ lastOp' = "down:text"
        /\ UNCHANGED aliased
        /\ UNCHANGED committedCanvas
        /\ noPush /\ noNotify
        /\ UNCHANGED <<stateRef, isDrawingRef, currentStrokeRef, panStartRef,
                       movingTextRef>>
     \/ /\ textInput = NULL
        /\ tool = "move"
        /\ hitText # NULL
        /\ isDrawingRef' = TRUE
        /\ movingTextRef' = [id |-> hitText.id,
                             offsetX |-> world.x - hitText.position.x,
                             offsetY |-> world.y - hitText.position.y]
        /\ lastOp' = "down:moveHit"
        /\ UNCHANGED aliased
        /\ UNCHANGED committedCanvas
        /\ noPush /\ noNotify
        /\ UNCHANGED <<stateRef, currentStrokeRef, panStartRef, textInput>>
     \/ /\ textInput = NULL
        /\ tool = "move"
        /\ hitText = NULL
        /\ lastOp' = "down:moveMiss"
        /\ UNCHANGED aliased
        /\ UNCHANGED committedCanvas
        /\ noPush /\ noNotify
        /\ UNCHANGED <<stateRef, isDrawingRef, currentStrokeRef, panStartRef,
                       movingTextRef, textInput>>
     \/ /\ textInput = NULL
        /\ tool = "pan"
        /\ isDrawingRef' = TRUE
        /\ panStartRef' = Pt(p.x, p.y)
        /\ lastOp' = "down:pan"
        /\ UNCHANGED aliased
        /\ UNCHANGED committedCanvas
        /\ noPush /\ noNotify
        /\ UNCHANGED <<stateRef, currentStrokeRef, movingTextRef, textInput>>
  /\ downOp' = lastOp'
  /\ panDown' = IF lastOp' = "down:pan"
                  THEN [point |-> p, offset |-> panOffsetRef]
                  ELSE NULL
  /\ UNCHANGED <<isDarkMode, overlay, savedData, dropped, propChanged, serverVars>>

\* handlePointerDown (lines 470-540)
handlePointerDown(p) ==
  LET world == screenToWorld(p.x, p.y)
      tool == activeToolRef
      hitStroke == hitTestStroke(world.x, world.y)
      hitText == hitTestText(world.x, world.y)
  IN
  /\ Mounted
  /\ lastPoint' = p
  /\ activeToolRef \in SessionTools(session)
  /\ pointer = "up"
  /\ pointer' = "canvas"
  /\ Other /\ noSwitch
  /\ UNCHANGED viewVars
  /\ UNCHANGED <<activeToolRef, activeColorRef, panOffsetRef, nextId>>
  /\ \/ \* text input is visible: ignore
        /\ textInput # NULL
        /\ lastOp' = "down:ignored"
        /\ UNCHANGED aliased
        /\ UNCHANGED committedCanvas
        /\ noPush /\ noNotify
        /\ UNCHANGED <<stateRef, isDrawingRef, currentStrokeRef, panStartRef,
                       movingTextRef, textInput>>
     \/ /\ textInput = NULL
        /\ tool = "pen"
        /\ isDrawingRef' = TRUE
        /\ currentStrokeRef' = <<world>>
        /\ lastOp' = "down:pen"
        /\ UNCHANGED aliased
        /\ UNCHANGED committedCanvas
        /\ noPush /\ noNotify
        /\ UNCHANGED <<stateRef, panStartRef, movingTextRef, textInput>>
     \/ /\ textInput = NULL
        /\ tool = "eraser"
        /\ hitStroke # NULL
        /\ Commit([stateRef EXCEPT !.strokes =
                     SelectSeq(stateRef.strokes, LAMBDA s : s.id # hitStroke.id)])
        /\ lastOp' = "down:eraseStroke"
        /\ aliased' = {}
        /\ renderCommitted
        /\ UNCHANGED <<isDrawingRef, currentStrokeRef, panStartRef,
                       movingTextRef, textInput>>
     \/ /\ textInput = NULL
        /\ tool = "eraser"
        /\ hitStroke = NULL
        /\ hitText # NULL
        /\ Commit([stateRef EXCEPT !.textElements =
                     SelectSeq(stateRef.textElements, LAMBDA t : t.id # hitText.id)])
        /\ lastOp' = "down:eraseText"
        /\ aliased' = {}
        /\ renderCommitted
        /\ UNCHANGED <<isDrawingRef, currentStrokeRef, panStartRef,
                       movingTextRef, textInput>>
     \/ \* no hit: continuous erasing while dragging
        /\ textInput = NULL
        /\ tool = "eraser"
        /\ hitStroke = NULL
        /\ hitText = NULL
        /\ isDrawingRef' = TRUE
        /\ lastOp' = "down:eraserMiss"
        /\ UNCHANGED aliased
        /\ UNCHANGED committedCanvas
        /\ noPush /\ noNotify
        /\ UNCHANGED <<stateRef, currentStrokeRef, panStartRef, movingTextRef,
                       textInput>>
     \/ /\ textInput = NULL
        /\ tool = "text"
        /\ textInput' = [worldX |-> world.x, worldY |-> world.y, value |-> <<>>]
        /\ lastOp' = "down:text"
        /\ UNCHANGED aliased
        /\ UNCHANGED committedCanvas
        /\ noPush /\ noNotify
        /\ UNCHANGED <<stateRef, isDrawingRef, currentStrokeRef, panStartRef,
                       movingTextRef>>
     \/ /\ textInput = NULL
        /\ tool = "move"
        /\ hitText # NULL
        /\ isDrawingRef' = TRUE
        /\ movingTextRef' = [id |-> hitText.id,
                             offsetX |-> world.x - hitText.position.x,
                             offsetY |-> world.y - hitText.position.y]
        /\ lastOp' = "down:moveHit"
        /\ UNCHANGED aliased
        /\ UNCHANGED committedCanvas
        /\ noPush /\ noNotify
        /\ UNCHANGED <<stateRef, currentStrokeRef, panStartRef, textInput>>
     \/ /\ textInput = NULL
        /\ tool = "move"
        /\ hitText = NULL
        /\ lastOp' = "down:moveMiss"
        /\ UNCHANGED aliased
        /\ UNCHANGED committedCanvas
        /\ noPush /\ noNotify
        /\ UNCHANGED <<stateRef, isDrawingRef, currentStrokeRef, panStartRef,
                       movingTextRef, textInput>>
     \/ /\ textInput = NULL
        /\ tool = "pan"
        /\ isDrawingRef' = TRUE
        /\ panStartRef' = Pt(p.x, p.y)
        /\ lastOp' = "down:pan"
        /\ UNCHANGED aliased
        /\ UNCHANGED committedCanvas
        /\ noPush /\ noNotify
        /\ UNCHANGED <<stateRef, currentStrokeRef, movingTextRef, textInput>>
  /\ downOp' = lastOp'
  /\ panDown' = IF lastOp' = "down:pan"
                  THEN [point |-> p, offset |-> panOffsetRef]
                  ELSE NULL
  /\ UNCHANGED <<isDarkMode, overlay, savedData, dropped, propChanged, serverVars>>

\* the pan branch that never moves its anchor to the current point
handlePointerMovePanKeepsStart(p) ==
  /\ panStartRef # NULL
  /\ LET dx == p.x - panStartRef.x
         dy == p.y - panStartRef.y
         nx == panOffsetRef.x + dx
         ny == panOffsetRef.y + dy
     IN /\ nx <= MaxPan /\ -nx <= MaxPan
        /\ ny <= MaxPan /\ -ny <= MaxPan
        /\ panOffsetRef' = Pt(nx, ny)
  /\ UNCHANGED panStartRef
  /\ lastOp' = "move:pan"
  /\ UNCHANGED aliased
  /\ UNCHANGED overlay
  /\ noPush /\ noNotify
  /\ UNCHANGED <<stateRef, currentStrokeRef>>
  /\ renderCommitted

\* handlePointerMove, pan branch (lines 574-583): the offset grows by the
\* distance from the anchor, and the anchor becomes the current point
handlePointerMovePan(p) ==
  /\ panStartRef # NULL
  /\ LET dx == p.x - panStartRef.x
         dy == p.y - panStartRef.y
         nx == panOffsetRef.x + dx
         ny == panOffsetRef.y + dy
     IN /\ nx <= MaxPan /\ -nx <= MaxPan
        /\ ny <= MaxPan /\ -ny <= MaxPan
        /\ panOffsetRef' = Pt(nx, ny)
  /\ panStartRef' = Pt(p.x, p.y)
  /\ lastOp' = "move:pan"
  /\ UNCHANGED aliased
  /\ UNCHANGED overlay
  /\ noPush /\ noNotify
  /\ UNCHANGED <<stateRef, currentStrokeRef>>
  /\ renderCommitted

\* handlePointerMove that puts the moved text element at the pointer
handlePointerMoveNoOffset(p) ==
  LET world == screenToWorld(p.x, p.y)
      tool == activeToolRef
      hitStroke == hitTestStroke(world.x, world.y)
  IN
  /\ Mounted
  /\ lastPoint' = p
  /\ UNCHANGED <<downOp, panDown>>
  /\ UNCHANGED <<isDarkMode, savedData, dropped, propChanged, serverVars>>
  /\ isDrawingRef
  /\ Other /\ noSwitch
  /\ UNCHANGED viewVars
  /\ UNCHANGED <<isDrawingRef, activeToolRef, activeColorRef, movingTextRef,
                 textInput, pointer, nextId>>
  /\ \/ /\ tool = "pen"
        /\ Len(currentStrokeRef) < MaxPoints
        /\ p \in PenSamples
        /\ currentStrokeRef' = Append(currentStrokeRef, world)
        /\ renderActiveStroke(currentStrokeRef', activeColorRef)
        /\ lastOp' = "move:pen"
        /\ UNCHANGED aliased
        /\ UNCHANGED committedCanvas
        /\ noPush /\ noNotify
        /\ UNCHANGED <<stateRef, panStartRef, panOffsetRef>>
     \/ \* continuous erasing while dragging
        /\ tool = "eraser"
        /\ hitStroke # NULL
        /\ Commit([stateRef EXCEPT !.strokes =
                     SelectSeq(stateRef.strokes, LAMBDA s : s.id # hitStroke.id)])
        /\ lastOp' = "move:eraseStroke"
        /\ aliased' = {}
        /\ renderCommitted
        /\ UNCHANGED overlay
        /\ UNCHANGED <<currentStrokeRef, panStartRef, panOffsetRef>>
     \/ /\ tool = "move"
        /\ movingTextRef # NULL
        /\ stateRef' = [stateRef EXCEPT !.textElements =
             [i \in 1..Len(stateRef.textElements) |->
                IF stateRef.textElements[i].id = movingTextRef.id
                  THEN [stateRef.textElements[i] EXCEPT !.position =
                          Pt(world.x, world.y)]
                  ELSE stateRef.textElements[i]]]
        /\ lastOp' = "move:move"
        /\ aliased' = {}
        /\ renderCommitted
        /\ UNCHANGED overlay
        /\ noPush /\ noNotify
        /\ UNCHANGED <<currentStrokeRef, panStartRef, panOffsetRef>>
     \/ /\ tool = "pan"
        /\ handlePointerMovePan(p)

\* handlePointerMove (lines 542-584); a move with isDrawingRef false returns
handlePointerMove(p) ==
  LET world == screenToWorld(p.x, p.y)
      tool == activeToolRef
      hitStroke == hitTestStroke(world.x, world.y)
  IN
  /\ Mounted
  /\ lastPoint' = p
  /\ UNCHANGED <<downOp, panDown>>
  /\ UNCHANGED <<isDarkMode, savedData, dropped, propChanged, serverVars>>
  /\ isDrawingRef
  /\ Other /\ noSwitch
  /\ UNCHANGED viewVars
  /\ UNCHANGED <<isDrawingRef, activeToolRef, activeColorRef, movingTextRef,
                 textInput, pointer, nextId>>
  /\ \/ /\ tool = "pen"
        /\ Len(currentStrokeRef) < MaxPoints
        /\ p \in PenSamples
        /\ currentStrokeRef' = Append(currentStrokeRef, world)
        /\ renderActiveStroke(currentStrokeRef', activeColorRef)
        /\ lastOp' = "move:pen"
        /\ UNCHANGED aliased
        /\ UNCHANGED committedCanvas
        /\ noPush /\ noNotify
        /\ UNCHANGED <<stateRef, panStartRef, panOffsetRef>>
     \/ \* continuous erasing while dragging
        /\ tool = "eraser"
        /\ hitStroke # NULL
        /\ Commit([stateRef EXCEPT !.strokes =
                     SelectSeq(stateRef.strokes, LAMBDA s : s.id # hitStroke.id)])
        /\ lastOp' = "move:eraseStroke"
        /\ aliased' = {}
        /\ renderCommitted
        /\ UNCHANGED overlay
        /\ UNCHANGED <<currentStrokeRef, panStartRef, panOffsetRef>>
     \/ /\ tool = "move"
        /\ movingTextRef # NULL
        /\ stateRef' = [stateRef EXCEPT !.textElements =
             [i \in 1..Len(stateRef.textElements) |->
                IF stateRef.textElements[i].id = movingTextRef.id
                  THEN [stateRef.textElements[i] EXCEPT !.position =
                          Pt(world.x - movingTextRef.offsetX,
                             world.y - movingTextRef.offsetY)]
                  ELSE stateRef.textElements[i]]]
        /\ lastOp' = "move:move"
        /\ aliased' = {}
        /\ renderCommitted
        /\ UNCHANGED overlay
        /\ noPush /\ noNotify
        /\ UNCHANGED <<currentStrokeRef, panStartRef, panOffsetRef>>
     \/ /\ tool = "pan"
        /\ handlePointerMovePan(p)

\* handlePointerUp that keeps a stroke of a single point
handlePointerUpOnePoint(ev) ==
  LET tool == activeToolRef
      points == currentStrokeRef
      newStroke == [id |-> generateId, points |-> points,
                    color |-> activeColorRef, width |-> DEFAULT_PEN_WIDTH]
  IN
  /\ Mounted
  /\ lastPoint' = NULL
  /\ downOp' = "none"
  /\ panDown' = NULL
  /\ UNCHANGED <<isDarkMode, savedData, dropped, propChanged, serverVars>>
  /\ pointer = "canvas"
  /\ pointer' = "up"
  /\ Other /\ noSwitch
  /\ UNCHANGED viewVars
  /\ UNCHANGED <<activeToolRef, activeColorRef, panOffsetRef, textInput>>
  /\ \/ /\ ~isDrawingRef
        /\ lastOp' = "up:idle"
        /\ UNCHANGED aliased
        /\ UNCHANGED committedCanvas
        /\ UNCHANGED overlay
        /\ noPush /\ noNotify
        /\ UNCHANGED <<stateRef, isDrawingRef, currentStrokeRef, panStartRef,
                       movingTextRef, nextId>>
     \/ /\ isDrawingRef
        /\ isDrawingRef' = FALSE
        /\ \/ /\ tool = "pen"
              /\ Len(points) >= 1
              /\ Commit([stateRef EXCEPT !.strokes = Append(@, newStroke)])
              /\ nextId' = nextId + 1
              /\ currentStrokeRef' = <<>>
              /\ clearOverlay
              /\ lastOp' = "up:stroke"
              /\ aliased' = {}
              /\ renderCommitted
              /\ UNCHANGED <<panStartRef, movingTextRef>>
           \/ /\ tool = "pen"
              /\ Len(points) < 1
              /\ currentStrokeRef' = <<>>
              /\ clearOverlay
              /\ lastOp' = "up:discard"
              /\ UNCHANGED aliased
              /\ UNCHANGED committedCanvas
              /\ noPush /\ noNotify
              /\ UNCHANGED <<stateRef, panStartRef, movingTextRef, nextId>>
           \/ /\ tool = "move"
              /\ movingTextRef # NULL
              /\ Commit(stateRef)
              /\ movingTextRef' = NULL
              /\ lastOp' = "up:move"
              /\ aliased' = {}
              /\ UNCHANGED committedCanvas
              /\ UNCHANGED overlay
              /\ UNCHANGED <<currentStrokeRef, panStartRef, nextId>>
           \/ /\ tool = "pan"
              /\ panStartRef' = NULL
              /\ lastOp' = "up:pan"
              /\ UNCHANGED aliased
              /\ UNCHANGED committedCanvas
              /\ UNCHANGED overlay
              /\ noPush /\ noNotify
              /\ UNCHANGED <<stateRef, currentStrokeRef, movingTextRef, nextId>>
           \/ /\ \/ tool \in {"eraser", "text"}
                 \/ tool = "move" /\ movingTextRef = NULL
              /\ lastOp' = "up:end"
              /\ UNCHANGED aliased
              /\ UNCHANGED committedCanvas
              /\ UNCHANGED overlay
              /\ noPush /\ noNotify
              /\ UNCHANGED <<stateRef, currentStrokeRef, panStartRef,
                             movingTextRef, nextId>>

\* handlePointerUp (lines 586-618), bound to onPointerUp and onPointerCancel
handlePointerUp(ev) ==
  LET tool == activeToolRef
      points == currentStrokeRef
      newStroke == [id |-> generateId, points |-> points,
                    color |-> activeColorRef, width |-> DEFAULT_PEN_WIDTH]
  IN
  /\ Mounted
  /\ lastPoint' = NULL
  /\ downOp' = "none"
  /\ panDown' = NULL
  /\ UNCHANGED <<isDarkMode, savedData, dropped, propChanged, serverVars>>
  /\ pointer = "canvas"
  /\ pointer' = "up"
  /\ Other /\ noSwitch
  /\ UNCHANGED viewVars
  /\ UNCHANGED <<activeToolRef, activeColorRef, panOffsetRef, textInput>>
  /\ \/ /\ ~isDrawingRef
        /\ lastOp' = "up:idle"
        /\ UNCHANGED aliased
        /\ UNCHANGED committedCanvas
        /\ UNCHANGED overlay
        /\ noPush /\ noNotify
        /\ UNCHANGED <<stateRef, isDrawingRef, currentStrokeRef, panStartRef,
                       movingTextRef, nextId>>
     \/ /\ isDrawingRef
        /\ isDrawingRef' = FALSE
        /\ \/ /\ tool = "pen"
              /\ Len(points) >= 2
              /\ Commit([stateRef EXCEPT !.strokes = Append(@, newStroke)])
              /\ nextId' = nextId + 1
              /\ currentStrokeRef' = <<>>
              /\ clearOverlay
              /\ lastOp' = "up:stroke"
              /\ aliased' = {}
              /\ renderCommitted
              /\ UNCHANGED <<panStartRef, movingTextRef>>
           \/ /\ tool = "pen"
              /\ Len(points) < 2
              /\ currentStrokeRef' = <<>>
              /\ clearOverlay
              /\ lastOp' = "up:discard"
              /\ UNCHANGED aliased
              /\ UNCHANGED committedCanvas
              /\ noPush /\ noNotify
              /\ UNCHANGED <<stateRef, panStartRef, movingTextRef, nextId>>
           \/ /\ tool = "move"
              /\ movingTextRef # NULL
              /\ Commit(stateRef)
              /\ movingTextRef' = NULL
              /\ lastOp' = "up:move"
              /\ aliased' = {}
              /\ UNCHANGED committedCanvas
              /\ UNCHANGED overlay
              /\ UNCHANGED <<currentStrokeRef, panStartRef, nextId>>
           \/ /\ tool = "pan"
              /\ panStartRef' = NULL
              /\ lastOp' = "up:pan"
              /\ UNCHANGED aliased
              /\ UNCHANGED committedCanvas
              /\ UNCHANGED overlay
              /\ noPush /\ noNotify
              /\ UNCHANGED <<stateRef, currentStrokeRef, movingTextRef, nextId>>
           \/ /\ \/ tool \in {"eraser", "text"}
                 \/ tool = "move" /\ movingTextRef = NULL
              /\ lastOp' = "up:end"
              /\ UNCHANGED aliased
              /\ UNCHANGED committedCanvas
              /\ UNCHANGED overlay
              /\ noPush /\ noNotify
              /\ UNCHANGED <<stateRef, currentStrokeRef, panStartRef,
                             movingTextRef, nextId>>

\* ------------------------------------------------------------- text editor
\* onChange of the text input (line 813)
handleTextChange(v) ==
  /\ Mounted
  /\ lastPoint' = NULL
  /\ UNCHANGED <<downOp, panDown>>
  /\ UNCHANGED <<isDarkMode, overlay, savedData, dropped, propChanged, serverVars>>
  /\ textInput # NULL
  /\ textInput.value # v
  /\ textInput' = [textInput EXCEPT !.value = v]
  /\ lastOp' = "type"
  /\ UNCHANGED aliased
  /\ UNCHANGED committedCanvas
  /\ Other /\ noSwitch
  /\ noPush /\ noNotify
  /\ UNCHANGED viewVars
  /\ UNCHANGED <<stateRef, isDrawingRef, currentStrokeRef, activeToolRef,
                 activeColorRef, panStartRef, panOffsetRef, movingTextRef,
                 pointer, nextId>>

\* commitTextInput that tests the value without trimming it
commitTextInputNoTrim(op) ==
  \/ /\ textInput = NULL \/ textInput.value = <<>>
     /\ textInput' = NULL
     /\ lastOp' = op \o ":discardText"
     /\ UNCHANGED aliased
     /\ UNCHANGED committedCanvas
     /\ noPush /\ noNotify
     /\ UNCHANGED <<stateRef, nextId>>
  \/ /\ textInput # NULL
     /\ textInput.value # <<>>
     /\ Commit([stateRef EXCEPT !.textElements = Append(@,
                  [id |-> generateId, text |-> Trim(textInput.value),
                   position |-> Pt(textInput.worldX, textInput.worldY),
                   color |-> activeColorRef, fontSize |-> DEFAULT_FONT_SIZE])])
     /\ nextId' = nextId + 1
     /\ textInput' = NULL
     /\ lastOp' = op \o ":commitText"
     /\ aliased' = {}
     /\ renderCommitted

\* commitTextInput (lines 621-643); op names the caller
commitTextInput(op) ==
  \/ /\ textInput = NULL \/ Trim(textInput.value) = <<>>
     /\ textInput' = NULL
     /\ lastOp' = op \o ":discardText"
     /\ UNCHANGED aliased
     /\ UNCHANGED committedCanvas
     /\ noPush /\ noNotify
     /\ UNCHANGED <<stateRef, nextId>>
  \/ /\ textInput # NULL
     /\ Trim(textInput.value) # <<>>
     /\ Commit([stateRef EXCEPT !.textElements = Append(@,
                  [id |-> generateId, text |-> Trim(textInput.value),
                   position |-> Pt(textInput.worldX, textInput.worldY),
                   color |-> activeColorRef, fontSize |-> DEFAULT_FONT_SIZE])])
     /\ nextId' = nextId + 1
     /\ textInput' = NULL
     /\ lastOp' = op \o ":commitText"
     /\ aliased' = {}
     /\ renderCommitted

\* a blur that closes the editor without looking at its value
handleTextBlurDiscards ==
  /\ Mounted
  /\ lastPoint' = NULL
  /\ UNCHANGED <<downOp, panDown>>
  /\ UNCHANGED <<isDarkMode, overlay, savedData, dropped, propChanged, serverVars>>
  /\ textInput # NULL
  /\ textInput' = NULL
  /\ lastOp' = "blur:discardText"
  /\ UNCHANGED <<aliased, committedCanvas>>
  /\ noPush /\ noNotify
  /\ UNCHANGED <<stateRef, nextId>>
  /\ Other /\ noSwitch
  /\ UNCHANGED viewVars
  /\ UNCHANGED <<isDrawingRef, currentStrokeRef, activeToolRef, activeColorRef,
                 panStartRef, panOffsetRef, movingTextRef, pointer>>

\* onBlur of the text input (line 815)
handleTextBlur ==
  /\ Mounted
  /\ lastPoint' = NULL
  /\ UNCHANGED <<downOp, panDown>>
  /\ UNCHANGED <<isDarkMode, overlay, savedData, dropped, propChanged, serverVars>>
  /\ textInput # NULL
  /\ commitTextInput("blur")
  /\ Other /\ noSwitch
  /\ UNCHANGED viewVars
  /\ UNCHANGED <<isDrawingRef, currentStrokeRef, activeToolRef, activeColorRef,
                 panStartRef, panOffsetRef, movingTextRef, pointer>>

\* handleTextKeyDown whose Escape pushes a snapshot
handleTextKeyDownEscapePushes(key) ==
  /\ Mounted
  /\ lastPoint' = NULL
  /\ UNCHANGED <<downOp, panDown>>
  /\ UNCHANGED <<isDarkMode, overlay, savedData, dropped, propChanged, serverVars>>
  /\ textInput # NULL
  /\ Other /\ noSwitch
  /\ UNCHANGED viewVars
  /\ UNCHANGED <<isDrawingRef, currentStrokeRef, activeToolRef, activeColorRef,
                 panStartRef, panOffsetRef, movingTextRef, pointer>>
  /\ \/ /\ key = "Enter"
        /\ commitTextInput("enter")
     \/ /\ key = "Escape"
        /\ textInput' = NULL
        /\ lastOp' = "escape"
        /\ UNCHANGED aliased
        /\ UNCHANGED committedCanvas
        /\ Commit(stateRef)
        /\ UNCHANGED nextId

\* handleTextKeyDown (lines 645-652)
handleTextKeyDown(key) ==
  /\ Mounted
  /\ lastPoint' = NULL
  /\ UNCHANGED <<downOp, panDown>>
  /\ UNCHANGED <<isDarkMode, overlay, savedData, dropped, propChanged, serverVars>>
  /\ textInput # NULL
  /\ Other /\ noSwitch
  /\ UNCHANGED viewVars
  /\ UNCHANGED <<isDrawingRef, currentStrokeRef, activeToolRef, activeColorRef,
                 panStartRef, panOffsetRef, movingTextRef, pointer>>
  /\ \/ /\ key = "Enter"
        /\ commitTextInput("enter")
     \/ /\ key = "Escape"
        /\ textInput' = NULL
        /\ lastOp' = "escape"
        /\ UNCHANGED aliased
        /\ UNCHANGED committedCanvas
        /\ noPush /\ noNotify
        /\ UNCHANGED <<stateRef, nextId>>

\* ------------------------------------------------------------------ toolbar
\* handleToolChange that leaves an open text editor alone
handleToolChangeKeepsEditor(tool) ==
  /\ Mounted
  /\ lastPoint' = NULL
  /\ UNCHANGED <<downOp, panDown>>
  /\ UNCHANGED <<isDarkMode, overlay, savedData, dropped, propChanged, serverVars>>
  /\ tool \in SessionTools(session)
  /\ \/ pointer = "up" /\ UNCHANGED switches
     \/ /\ pointer # "up" /\ SessionSwitches(session)
        /\ switches < MaxSwitches
        /\ switches' = switches + 1
  /\ activeToolRef' = tool
  /\ Other
  /\ UNCHANGED viewVars
  /\ UNCHANGED <<isDrawingRef, currentStrokeRef, activeColorRef, panStartRef,
                 panOffsetRef, movingTextRef, pointer>>
  /\ \/ /\ FALSE
        /\ commitTextInput("tool")
     \/ /\ TRUE
        /\ lastOp' = "tool"
        /\ UNCHANGED aliased
        /\ UNCHANGED committedCanvas
        /\ noPush /\ noNotify
        /\ UNCHANGED <<stateRef, textInput, nextId>>

\* handleToolChange (lines 655-662)
handleToolChange(tool) ==
  /\ Mounted
  /\ lastPoint' = NULL
  /\ UNCHANGED <<downOp, panDown>>
  /\ UNCHANGED <<isDarkMode, overlay, savedData, dropped, propChanged, serverVars>>
  /\ tool \in SessionTools(session)
  /\ \/ pointer = "up" /\ UNCHANGED switches
     \/ /\ pointer # "up" /\ SessionSwitches(session)
        /\ switches < MaxSwitches
        /\ switches' = switches + 1
  /\ activeToolRef' = tool
  /\ Other
  /\ UNCHANGED viewVars
  /\ UNCHANGED <<isDrawingRef, currentStrokeRef, activeColorRef, panStartRef,
                 panOffsetRef, movingTextRef, pointer>>
  /\ \/ /\ tool # "text" /\ textInput # NULL
        /\ commitTextInput("tool")
     \/ /\ ~(tool # "text" /\ textInput # NULL)
        /\ lastOp' = "tool"
        /\ UNCHANGED aliased
        /\ UNCHANGED committedCanvas
        /\ noPush /\ noNotify
        /\ UNCHANGED <<stateRef, textInput, nextId>>

\* handleColorChange (lines 665-668)
handleColorChange(color) ==
  /\ Mounted
  /\ lastPoint' = NULL
  /\ UNCHANGED <<downOp, panDown>>
  /\ UNCHANGED <<isDarkMode, overlay, savedData, dropped, propChanged, serverVars>>
  /\ session = "colour"
  /\ activeColorRef # color
  /\ activeColorRef' = color
  /\ lastOp' = "color"
  /\ UNCHANGED aliased
  /\ UNCHANGED committedCanvas
  /\ Other /\ noSwitch
  /\ noPush /\ noNotify
  /\ UNCHANGED viewVars
  /\ UNCHANGED <<stateRef, isDrawingRef, currentStrokeRef, activeToolRef,
                 panStartRef, panOffsetRef, movingTextRef, textInput, pointer,
                 nextId>>

\* what undo and redo leave alone
historyMoveFrame ==
  UNCHANGED <<isDrawingRef, currentStrokeRef, activeToolRef, activeColorRef,
              panStartRef, panOffsetRef, movingTextRef, textInput,
              isResizingRef, resizeStartRef, pointer, nextId,
              initialLoadDoneRef, crashed, session, switches>>

\* undo and redo that install the entry itself and not a clone of it
installEntryNoClone(index) ==
  LET state == historyRef[index + 1]
  IN /\ historyIndexRef' = index
     /\ stateRef' = state
     /\ aliased' = {index + 1}
     /\ canvasSize' = Size(state.canvasWidth, state.canvasHeight)
     /\ canvasSizeRef' = Size(state.canvasWidth, state.canvasHeight)
     /\ sizePending' = FALSE
     /\ clearOverlay
     /\ pushes' = 0
     /\ notifyChange
     /\ UNCHANGED <<historyRef, budget, commits>>

\* the state installed by undo and redo: a deep clone of the entry; the
\* setCanvasSize of the handler is rendered before the next event, and its
\* effects store the size in canvasSizeRef and in stateRef.current
installEntry(index) ==
  LET state == DeepClone(historyRef[index + 1])
  IN /\ historyIndexRef' = index
     /\ stateRef' = state
     /\ aliased' = {}
     /\ canvasSize' = Size(state.canvasWidth, state.canvasHeight)
     /\ canvasSizeRef' = Size(state.canvasWidth, state.canvasHeight)
     /\ sizePending' = FALSE
     /\ clearOverlay
     /\ pushes' = 0
     /\ notifyChange
     /\ UNCHANGED <<historyRef, budget, commits>>

historyNoop ==
  /\ noPush /\ noNotify
  /\ UNCHANGED overlay
  /\ UNCHANGED <<stateRef, canvasSize, canvasSizeRef, sizePending>>

\* undo logic that notifies the host before its bounds check
undoLogicNotifies(op) ==
  /\ Mounted
  /\ lastPoint' = NULL
  /\ UNCHANGED <<downOp, panDown>>
  /\ UNCHANGED <<isDarkMode, savedData, dropped, propChanged, serverVars>>
  /\ historyMoveFrame
  /\ \/ /\ historyIndexRef <= 0
        /\ UNCHANGED <<stateRef, canvasSize, canvasSizeRef, sizePending>>
        /\ noPush /\ notifyChange
        /\ UNCHANGED overlay
        /\ lastOp' = op \o ":noop"
        /\ UNCHANGED aliased
        /\ UNCHANGED committedCanvas
        /\ savedDoc' = NULL
        /\ UNCHANGED undone
     \/ /\ ~(historyIndexRef <= 0)
        /\ Len(historyRef) - historyIndexRef <= MaxUndoDepth
        /\ installEntry(historyIndexRef - 1)
        /\ lastOp' = op
        /\ renderCommitted
        /\ savedDoc' = stateRef
        /\ undone' = TRUE

\* undo logic of handleUndo and of the Ctrl+Z shortcut; op names the caller
undoLogic(op) ==
  /\ Mounted
  /\ lastPoint' = NULL
  /\ UNCHANGED <<downOp, panDown>>
  /\ UNCHANGED <<isDarkMode, savedData, dropped, propChanged, serverVars>>
  /\ historyMoveFrame
  /\ \/ /\ historyIndexRef <= 0
        /\ historyNoop
        /\ lastOp' = op \o ":noop"
        /\ UNCHANGED aliased
        /\ UNCHANGED committedCanvas
        /\ savedDoc' = NULL
        /\ UNCHANGED undone
     \/ /\ ~(historyIndexRef <= 0)
        /\ Len(historyRef) - historyIndexRef <= MaxUndoDepth
        /\ installEntry(historyIndexRef - 1)
        /\ lastOp' = op
        /\ renderCommitted
        /\ savedDoc' = stateRef
        /\ undone' = TRUE

\* redo logic that installs the entry without telling the host
redoLogicSilent(op) ==
  /\ Mounted
  /\ lastPoint' = NULL
  /\ UNCHANGED <<downOp, panDown>>
  /\ UNCHANGED <<isDarkMode, savedData, dropped, propChanged, serverVars>>
  /\ historyMoveFrame
  /\ savedDoc' = NULL
  /\ UNCHANGED undone
  /\ \/ /\ historyIndexRef >= Len(historyRef) - 1
        /\ historyNoop
        /\ lastOp' = op \o ":noop"
        /\ UNCHANGED aliased
        /\ UNCHANGED committedCanvas
     \/ /\ ~(historyIndexRef >= Len(historyRef) - 1)
        /\ LET state == DeepClone(historyRef[historyIndexRef + 2])
           IN /\ historyIndexRef' = historyIndexRef + 1
              /\ stateRef' = state
              /\ aliased' = {}
              /\ canvasSize' = Size(state.canvasWidth, state.canvasHeight)
              /\ canvasSizeRef' = Size(state.canvasWidth, state.canvasHeight)
              /\ sizePending' = FALSE
              /\ clearOverlay
              /\ pushes' = 0
              /\ noNotify
              /\ UNCHANGED <<historyRef, budget, commits>>
        /\ lastOp' = op
        /\ renderCommitted

\* redo logic of handleRedo and of the Ctrl+Shift+Z shortcut
redoLogic(op) ==
  /\ Mounted
  /\ lastPoint' = NULL
  /\ UNCHANGED <<downOp, panDown>>
  /\ UNCHANGED <<isDarkMode, savedData, dropped, propChanged, serverVars>>
  /\ historyMoveFrame
  /\ savedDoc' = NULL
  /\ UNCHANGED undone
  /\ \/ /\ historyIndexRef >= Len(historyRef) - 1
        /\ historyNoop
        /\ lastOp' = op \o ":noop"
        /\ UNCHANGED aliased
        /\ UNCHANGED committedCanvas
     \/ /\ ~(historyIndexRef >= Len(historyRef) - 1)
        /\ installEntry(historyIndexRef + 1)
        /\ lastOp' = op
        /\ renderCommitted

\* handleUndo (lines 671-680)
handleUndo == undoLogic("undo")

\* handleRedo (lines 683-692)
handleRedo == redoLogic("redo")

\* handleKeyDown (lines 389-413): Ctrl/Cmd+Z, with or without Shift
handleKeyDown(shiftKey) ==
  IF shiftKey THEN redoLogic("keyRedo") ELSE undoLogic("keyUndo")

\* handleClear without its pushHistory
handleClearNoPush ==
  /\ Mounted
  /\ lastPoint' = NULL
  /\ UNCHANGED <<downOp, panDown>>
  /\ UNCHANGED <<isDarkMode, overlay, savedData, dropped, propChanged, serverVars>>
  /\ stateRef' = [stateRef EXCEPT !.strokes = <<>>, !.textElements = <<>>]
  /\ noPush /\ notifyChange
  /\ lastOp' = "clear"
  /\ aliased' = {}
  /\ renderCommitted
  /\ Other /\ noSwitch
  /\ UNCHANGED viewVars
  /\ UNCHANGED <<isDrawingRef, currentStrokeRef, activeToolRef, activeColorRef,
                 panStartRef, panOffsetRef, movingTextRef, textInput, pointer,
                 nextId>>

\* handleClear (lines 695-705)
handleClear ==
  /\ Mounted
  /\ lastPoint' = NULL
  /\ UNCHANGED <<downOp, panDown>>
  /\ UNCHANGED <<isDarkMode, overlay, savedData, dropped, propChanged, serverVars>>
  /\ Commit([stateRef EXCEPT !.strokes = <<>>, !.textElements = <<>>])
  /\ lastOp' = "clear"
  /\ aliased' = {}
  /\ renderCommitted
  /\ Other /\ noSwitch
  /\ UNCHANGED viewVars
  /\ UNCHANGED <<isDrawingRef, currentStrokeRef, activeToolRef, activeColorRef,
                 panStartRef, panOffsetRef, movingTextRef, textInput, pointer,
                 nextId>>

\* ------------------------------------------------------------ canvas resize
toolVars == <<isDrawingRef, currentStrokeRef, activeToolRef, activeColorRef,
              panStartRef, panOffsetRef, movingTextRef, textInput, nextId>>

\* handleResizePointerDown (lines 713-722, 747-748)
handleResizePointerDown(p) ==
  /\ Mounted
  /\ lastPoint' = NULL
  /\ UNCHANGED <<downOp, panDown>>
  /\ UNCHANGED <<isDarkMode, overlay, savedData, dropped, propChanged, serverVars>>
  /\ session = "resize"
  /\ pointer = "up"
  /\ pointer' = "resize"
  /\ isResizingRef' = TRUE
  /\ resizeStartRef' = [x |-> p.x, y |-> p.y,
                        w |-> canvasSizeRef.width, h |-> canvasSizeRef.height]
  /\ lastOp' = "resizeDown"
  /\ UNCHANGED aliased
  /\ UNCHANGED committedCanvas
  /\ Other /\ noSwitch
  /\ noPush /\ noNotify
  /\ UNCHANGED toolVars
  /\ UNCHANGED <<stateRef, canvasSize, canvasSizeRef, sizePending>>

\* handleResizeMove (lines 724-731): setCanvasSize of a pointermove listener,
\* rendered later (CanvasSizeEffect)
handleResizeMove(p) ==
  /\ Mounted
  /\ lastPoint' = NULL
  /\ UNCHANGED <<downOp, panDown>>
  /\ UNCHANGED <<isDarkMode, overlay, savedData, dropped, propChanged, serverVars>>
  /\ pointer = "resize"
  /\ isResizingRef /\ resizeStartRef # NULL
  /\ LET dx == p.x - resizeStartRef.x
         dy == p.y - resizeStartRef.y
         newWidth == Max(MIN_CANVAS_WIDTH, resizeStartRef.w + dx)
         newHeight == Max(MIN_CANVAS_HEIGHT, resizeStartRef.h + dy)
     IN /\ newWidth <= MaxCanvas /\ newHeight <= MaxCanvas
        /\ canvasSize' = Size(newWidth, newHeight)
  /\ sizePending' = TRUE
  /\ lastOp' = "resizeMove"
  /\ UNCHANGED aliased
  /\ UNCHANGED committedCanvas
  /\ Other /\ noSwitch
  /\ noPush /\ noNotify
  /\ UNCHANGED toolVars
  /\ UNCHANGED <<stateRef, canvasSizeRef, isResizingRef, resizeStartRef, pointer>>

\* handleResizeUp (lines 733-745)
handleResizeUp ==
  /\ Mounted
  /\ lastPoint' = NULL
  /\ UNCHANGED <<downOp, panDown>>
  /\ UNCHANGED <<isDarkMode, overlay, savedData, dropped, propChanged, serverVars>>
  /\ pointer = "resize"
  /\ pointer' = "up"
  /\ isResizingRef' = FALSE
  /\ resizeStartRef' = NULL
  /\ stateRef' = [stateRef EXCEPT !.canvasWidth = canvasSizeRef.width,
                                  !.canvasHeight = canvasSizeRef.height]
  /\ noPush
  /\ notifyChange
  /\ lastOp' = "resizeUp"
  /\ aliased' = {}
  /\ UNCHANGED committedCanvas
  /\ Other /\ noSwitch
  /\ UNCHANGED toolVars
  /\ UNCHANGED <<canvasSize, canvasSizeRef, sizePending>>

\* render after setCanvasSize: the effects of lines 383-385 (setupCanvasSize,
\* lines 333-354) and 708-710 (canvasSizeRef)
CanvasSizeEffect ==
  /\ Mounted
  /\ lastPoint' = NULL
  /\ UNCHANGED <<downOp, panDown>>
  /\ UNCHANGED <<isDarkMode, savedData, dropped, propChanged, serverVars>>
  /\ overlay' = NULL
  /\ sizePending
  /\ sizePending' = FALSE
  /\ stateRef' = [stateRef EXCEPT !.canvasWidth = canvasSize.width,
                                  !.canvasHeight = canvasSize.height]
  /\ canvasSizeRef' = canvasSize
  /\ lastOp' = "sizeEffect"
  /\ UNCHANGED aliased
  /\ renderCommitted
  /\ Other /\ noSwitch
  /\ historyRef' = [i \in 1..Len(historyRef) |->
                     IF i \in aliased
                       THEN [historyRef[i] EXCEPT
                               !.canvasWidth = canvasSize.width,
                               !.canvasHeight = canvasSize.height]
                       ELSE historyRef[i]]
  /\ pushes' = 0
  /\ UNCHANGED <<historyIndexRef, budget, commits>>
  /\ noNotify
  /\ UNCHANGED toolVars
  /\ UNCHANGED <<canvasSize, isResizingRef, resizeStartRef, pointer>>

\* the host re-renders SketchPad with the other theme: the effect of lines
\* 377-380 redraws the committed canvas
ThemeChange ==
  /\ Mounted
  /\ SessionThemes(session)
  /\ isDarkMode' = ~isDarkMode
  /\ lastPoint' = NULL
  /\ UNCHANGED <<downOp, panDown>>
  /\ lastOp' = "theme"
  /\ UNCHANGED aliased
  /\ Other /\ noSwitch
  /\ noPush /\ noNotify
  /\ UNCHANGED toolVars
  /\ UNCHANGED viewVars
  /\ UNCHANGED <<stateRef, pointer, overlay, savedData, dropped, propChanged, serverVars>>
  /\ committedCanvas' = renderColors(stateRef, isDarkMode')

\* the sketch data of the notes the host can open next: a new note without a
\* sketch, and the note of the mounted document as it was last saved
NotesToOpen ==
  {[json |-> <<"none">>, doc |-> NULL]}
    \cup IF emitted = <<>> THEN {}
         ELSE {[json |-> emitted, doc |-> emittedDoc]}

\* the sketch data prop of a mount that follows a document switch
SavedInputs == IF savedData = NULL THEN {} ELSE {savedData.json}

\* a document switch that keeps the pan offset and the open text editor of
\* the previous mount
DocumentSwitchKeepsView(note) ==
  /\ Mounted
  /\ savedData = NULL
  /\ savedData' = note
  /\ dropped' = [doc |-> stateRef, log |-> historyRef,
                  pan |-> panOffsetRef, editing |-> textInput # NULL]
  /\ stateRef' = createEmptyState(600, 400)
  /\ historyRef' = <<createEmptyState(600, 400)>>
  /\ historyIndexRef' = 0
  /\ isDrawingRef' = FALSE
  /\ currentStrokeRef' = <<>>
  /\ activeToolRef' = "pen"
  /\ activeColorRef' = "#000000"
  /\ panStartRef' = NULL
  /\ movingTextRef' = NULL
  /\ canvasSize' = Size(600, 400)
  /\ canvasSizeRef' = Size(600, 400)
  /\ sizePending' = FALSE
  /\ isResizingRef' = FALSE
  /\ resizeStartRef' = NULL
  /\ initialLoadDoneRef' = FALSE
  /\ overlay' = NULL
  /\ pointer' = "up"
  /\ commits' = 0
  /\ undone' = FALSE
  /\ savedDoc' = NULL
  /\ lastOp' = "switch"
  /\ lastPoint' = NULL
  /\ downOp' = "none"
  /\ panDown' = NULL
  /\ pushes' = 0
  /\ emits' = 0
  /\ emitted' = <<>>
  /\ emittedDoc' = NULL
  /\ raster' = NULL
  /\ aliased' = {}
  /\ committedCanvas' = NULL
  /\ session' = "reopened"
  /\ propChanged' = FALSE
  /\ UNCHANGED serverVars
  /\ UNCHANGED <<crashed, switches, nextId, budget, isDarkMode,
                 panOffsetRef, textInput>>

\* document switch: AppPage keys ResizableWorkspace by the note id (page.tsx
\* lines 46-51), so that SketchPad is unmounted and mounted anew with the
\* refs and state of lines 125-160; the load effect follows
DocumentSwitch(note) ==
  /\ Mounted
  /\ savedData = NULL
  /\ savedData' = note
  /\ dropped' = [doc |-> stateRef, log |-> historyRef,
                  pan |-> panOffsetRef, editing |-> textInput # NULL]
  /\ stateRef' = createEmptyState(600, 400)
  /\ historyRef' = <<createEmptyState(600, 400)>>
  /\ historyIndexRef' = 0
  /\ isDrawingRef' = FALSE
  /\ currentStrokeRef' = <<>>
  /\ activeToolRef' = "pen"
  /\ activeColorRef' = "#000000"
  /\ panStartRef' = NULL
  /\ panOffsetRef' = Pt(0, 0)
  /\ movingTextRef' = NULL
  /\ textInput' = NULL
  /\ canvasSize' = Size(600, 400)
  /\ canvasSizeRef' = Size(600, 400)
  /\ sizePending' = FALSE
  /\ isResizingRef' = FALSE
  /\ resizeStartRef' = NULL
  /\ initialLoadDoneRef' = FALSE
  /\ overlay' = NULL
  /\ pointer' = "up"
  /\ commits' = 0
  /\ undone' = FALSE
  /\ savedDoc' = NULL
  /\ lastOp' = "switch"
  /\ lastPoint' = NULL
  /\ downOp' = "none"
  /\ panDown' = NULL
  /\ pushes' = 0
  /\ emits' = 0
  /\ emitted' = <<>>
  /\ emittedDoc' = NULL
  /\ raster' = NULL
  /\ aliased' = {}
  /\ committedCanvas' = NULL
  /\ session' = "reopened"
  /\ propChanged' = FALSE
  /\ UNCHANGED serverVars
  /\ UNCHANGED <<crashed, switches, nextId, budget, isDarkMode>>

\* the values the host gives the sketchData prop of a mounted SketchPad:
\* handleSketchChange (ResizableWorkspace.tsx lines 65-71) stores the document
\* the engine emitted and passes it back (lines 140-144), and a note without
\* a sketch has none
PropInputs == {<<"none">>} \cup (IF emitted = <<>> THEN {} ELSE {emitted})

\* what the load effect writes
loadVars == <<stateRef, historyRef, historyIndexRef, canvasSize, canvasSizeRef,
              committedCanvas, aliased>>

\* a load effect that takes every sketchData it is run with
loadEffectReloads(sketchData) ==
  IF sketchData[1] = "doc"
    THEN /\ stateRef' = JSONParse(sketchData)
         /\ historyRef' = <<DeepClone(JSONParse(sketchData))>>
         /\ historyIndexRef' = 0
         /\ canvasSize' = Size(stateRef'.canvasWidth, stateRef'.canvasHeight)
         /\ canvasSizeRef' = canvasSize'
         /\ aliased' = {}
         /\ renderCommitted
    ELSE UNCHANGED loadVars

\* the load effect (lines 357-375) on a run after the first: line 358 returns
\* when initialLoadDoneRef is set
loadEffectAgain(sketchData) ==
  IF initialLoadDoneRef
    THEN UNCHANGED loadVars
    ELSE loadEffectReloads(sketchData)

\* the host renders the mounted SketchPad with another sketchData: the load
\* effect, which has sketchData among its dependencies, runs again.  The
\* first change after the mount is followed: the effect reads nothing that a
\* change of the prop leaves behind.
SketchDataChange(sketchData) ==
  /\ Mounted
  /\ ~propChanged
  /\ propChanged' = TRUE
  /\ loadEffectAgain(sketchData)
  /\ UNCHANGED <<isDrawingRef, currentStrokeRef, activeToolRef, activeColorRef,
                 panStartRef, panOffsetRef, movingTextRef, textInput,
                 sizePending, isResizingRef, resizeStartRef,
                 initialLoadDoneRef, crashed, pointer, session, switches,
                 nextId, budget, commits, undone, lastOp, lastPoint, downOp,
                 panDown, isDarkMode, overlay, pushes, emits, emitted,
                 savedDoc, emittedDoc, raster, savedData, dropped, serverVars>>

\* ------------------------------------------------------------ specification
NextMounted ==
  \/ \E p \in DownPoints(session) : handlePointerDown(p)
  \/ \E p \in ScreenPoints : handlePointerMove(p)
  \/ \E ev \in {"pointerup", "pointercancel"} : handlePointerUp(ev)
  \/ \E v \in TextValues : handleTextChange(v)
  \/ handleTextBlur
  \/ \E key \in {"Enter", "Escape"} : handleTextKeyDown(key)
  \/ \E tool \in Tools : handleToolChange(tool)
  \/ \E color \in Colors : handleColorChange(color)
  \/ handleUndo
  \/ handleRedo
  \/ \E shiftKey \in BOOLEAN : handleKeyDown(shiftKey)
  \/ handleClear
  \/ \E p \in ResizePoints : handleResizePointerDown(p)
  \/ \E p \in ResizePoints : handleResizeMove(p)
  \/ handleResizeUp
  \/ CanvasSizeEffect
  \/ ThemeChange

Next ==
  \/ \E sketchData \in SketchDataInputs \cup SavedInputs : LoadEffect(sketchData)
  \/ NextMounted

Spec == Init /\ [][Next]_vars

\* the engine from construction and from a history close to MAX_HISTORY
SpecCap == (Init \/ InitCap) /\ [][Next]_vars

\* the engine from construction, in the sessions that move elements and
\* erase, and from the sketches of the "probe" session
HitSessions == {"write", "view"}

\* the handlers of those sessions: all but the colour buttons and the resize
\* handle
NextHit ==
  \/ \E sketchData \in SketchDataInputs \cup SavedInputs : LoadEffect(sketchData)
  \/ \E p \in DownPoints(session) : handlePointerDown(p)
  \/ \E p \in ScreenPoints : handlePointerMove(p)
  \/ \E ev \in {"pointerup", "pointercancel"} : handlePointerUp(ev)
  \/ \E v \in TextValues : handleTextChange(v)
  \/ handleTextBlur
  \/ \E key \in {"Enter", "Escape"} : handleTextKeyDown(key)
  \/ \E tool \in Tools : handleToolChange(tool)
  \/ handleUndo
  \/ handleRedo
  \/ \E shiftKey \in BOOLEAN : handleKeyDown(shiftKey)
  \/ handleClear
  \/ ThemeChange

SpecHit == ((Init /\ session \in HitSessions) \/ InitHit) /\ [][NextHit]_vars

\* the engine and a host that switches to another document once; the
\* behaviour goes on in the session "reopened", which uses no tool
NextSwitch ==
  \/ Next
  \/ \E note \in NotesToOpen : DocumentSwitch(note)

SpecSwitch == Init /\ [][NextSwitch]_vars

\* the engine and a host that changes the sketchData prop after the mount, in
\* the sessions that edit text, move elements, pan and erase
InitFeedback == Init /\ session \in HitSessions

NextFeedback ==
  \/ NextHit
  \/ \E sketchData \in PropInputs : SketchDataChange(sketchData)

SpecFeedback == InitFeedback /\ [][NextFeedback]_vars

\* ================================================================ notes API
\* what lies outside the notes API
outsideNotes == <<sketchVars, limitVars, authVars, mwVars, saveVars>>

\* The route handlers of src/app/api. Timestamps are one value, "now": they
\* order the lists, which are modelled as the sets of the ids listed; a
\* search is a query string that is not empty. PUT
\* writes sketch_data and sketch_image the way it writes content, so that the
\* request bodies modelled carry content or nothing.
Users == {[id |-> "u1"], [id |-> "u2"]}

\* getAuthUser: the user of the session, or NULL for a request without one
Callers == Users \cup {NULL}

Contents == {"", "# a"}

\* a PUT body with no field, or with the field content
Bodies == {[fields |-> {}]} \cup {[fields |-> {"content"}, content |-> c] : c \in Contents}

\* extractTitle (route.ts lines 7-20): the text of the first non-empty line,
\* without a heading mark
extractTitle(content) ==
  CASE content = "" -> ""
    [] content = "# a" -> "a"

\* a row lookup that does not ask for the owner
RowOfAnyUser(id, user) == notes[id] # NULL

\* the rows SELECT ... WHERE id = ? AND user_id = ? finds
RowOf(id, user) == notes[id] # NULL /\ notes[id].user_id = user.id

Respond(route, user, id, status, body) ==
  /\ request' = [route |-> route, user |-> user, id |-> id]
  /\ response' = [status |-> status, body |-> body]

Unauthorized(route, id) ==
  /\ Respond(route, NULL, id, 401, "Unauthorized")
  /\ UNCHANGED <<notes, images, usedIds>>

NotFound(route, user, id) ==
  /\ Respond(route, user, id, 404, "Note not found")
  /\ UNCHANGED <<notes, images, usedIds>>

\* GET /api/notes: the caller's notes that are not in the trash, all of them
\* or those the search matches
NotesGET(user, q) ==
  /\ UNCHANGED outsideNotes
  /\ IF user = NULL THEN Unauthorized("GET /api/notes", NULL)
     ELSE /\ Respond("GET /api/notes", user, NULL, 200,
                     {id \in NoteIds :
                        /\ RowOf(id, user)
                        /\ notes[id].deleted_at = NULL
                        /\ q # "" => q = extractTitle(notes[id].content)})
          /\ UNCHANGED <<notes, images, usedIds>>

\* POST /api/notes: a new note with an id of uuidv4, an empty title and the
\* content of the body
NotesPOST(user, content) ==
  /\ UNCHANGED outsideNotes
  /\ IF user = NULL THEN Unauthorized("POST /api/notes", NULL)
     ELSE \E id \in NoteIds \ usedIds :
            LET row == [user_id |-> user.id, title |-> "", content |-> content,
                        is_pinned |-> 0, deleted_at |-> NULL]
            IN /\ notes' = [notes EXCEPT ![id] = row]
               /\ usedIds' = usedIds \cup {id}
               /\ Respond("POST /api/notes", user, id, 201, row)
               /\ UNCHANGED images

\* GET /api/notes/[id]
NoteGET(user, id) ==
  /\ UNCHANGED outsideNotes
  /\ IF user = NULL THEN Unauthorized("GET /api/notes/[id]", id)
     ELSE IF ~RowOf(id, user) THEN NotFound("GET /api/notes/[id]", user, id)
     ELSE /\ Respond("GET /api/notes/[id]", user, id, 200, notes[id])
          /\ UNCHANGED <<notes, images, usedIds>>

\* PUT /api/notes/[id]: writes the fields of the body, and the title that
\* extractTitle takes from the content
NotePUT(user, id, body) ==
  /\ UNCHANGED outsideNotes
  /\ IF user = NULL THEN Unauthorized("PUT /api/notes/[id]", id)
     ELSE IF ~RowOf(id, user) THEN NotFound("PUT /api/notes/[id]", user, id)
     ELSE IF body.fields = {}
       THEN /\ Respond("PUT /api/notes/[id]", user, id, 400, "No fields to update")
            /\ UNCHANGED <<notes, images, usedIds>>
       ELSE LET row == [notes[id] EXCEPT !.content = body.content,
                                         !.title = extractTitle(body.content)]
            IN /\ notes' = [notes EXCEPT ![id] = row]
               /\ Respond("PUT /api/notes/[id]", user, id, 200, row)
               /\ UNCHANGED <<images, usedIds>>

\* DELETE /api/notes/[id]: soft delete
NoteDELETE(user, id) ==
  /\ UNCHANGED outsideNotes
  /\ IF user = NULL THEN Unauthorized("DELETE /api/notes/[id]", id)
     ELSE IF ~RowOf(id, user) THEN NotFound("DELETE /api/notes/[id]", user, id)
     ELSE /\ notes' = [notes EXCEPT ![id].deleted_at = Now]
          /\ Respond("DELETE /api/notes/[id]", user, id, 200, "success")
          /\ UNCHANGED <<images, usedIds>>

\* POST /api/notes/[id]/pin: toggles is_pinned
PinPOST(user, id) ==
  /\ UNCHANGED outsideNotes
  /\ IF user = NULL THEN Unauthorized("POST /api/notes/[id]/pin", id)
     ELSE IF ~RowOf(id, user) THEN NotFound("POST /api/notes/[id]/pin", user, id)
     ELSE LET newPinned == IF notes[id].is_pinned # 0 THEN 0 ELSE 1
          IN /\ notes' = [notes EXCEPT ![id].is_pinned = newPinned]
             /\ Respond("POST /api/notes/[id]/pin", user, id, 200, newPinned)
             /\ UNCHANGED <<images, usedIds>>

\* POST /api/notes/[id]/restore
RestorePOST(user, id) ==
  /\ UNCHANGED outsideNotes
  /\ IF user = NULL THEN Unauthorized("POST /api/notes/[id]/restore", id)
     ELSE IF ~RowOf(id, user)
       THEN NotFound("POST /api/notes/[id]/restore", user, id)
     ELSE /\ notes' = [notes EXCEPT ![id].deleted_at = NULL]
          /\ Respond("POST /api/notes/[id]/restore", user, id, 200, "success")
          /\ UNCHANGED <<images, usedIds>>

\* a permanent delete that does not ask for the note to be in the trash
PermanentDELETEAny(user, id) ==
  /\ UNCHANGED outsideNotes
  /\ IF user = NULL THEN Unauthorized("DELETE /api/notes/[id]/permanent", id)
     ELSE IF ~RowOf(id, user)
       THEN NotFound("DELETE /api/notes/[id]/permanent", user, id)
     ELSE /\ images' = images \ {id}
          /\ notes' = [notes EXCEPT ![id] = NULL]
          /\ Respond("DELETE /api/notes/[id]/permanent", user, id, 200, "success")
          /\ UNCHANGED usedIds

\* DELETE /api/notes/[id]/permanent: removes a note of the trash with its
\* images
PermanentDELETE(user, id) ==
  /\ UNCHANGED outsideNotes
  /\ IF user = NULL THEN Unauthorized("DELETE /api/notes/[id]/permanent", id)
     ELSE IF ~(RowOf(id, user) /\ notes[id].deleted_at # NULL)
       THEN NotFound("DELETE /api/notes/[id]/permanent", user, id)
     ELSE /\ images' = images \ {id}
          /\ notes' = [notes EXCEPT ![id] = NULL]
          /\ Respond("DELETE /api/notes/[id]/permanent", user, id, 200, "success")
          /\ UNCHANGED usedIds

\* the caller's notes in the trash
trashedNotes(user) ==
  {id \in NoteIds : RowOf(id, user) /\ notes[id].deleted_at # NULL}

\* GET /api/trash
TrashGET(user) ==
  /\ UNCHANGED outsideNotes
  /\ IF user = NULL THEN Unauthorized("GET /api/trash", NULL)
     ELSE /\ Respond("GET /api/trash", user, NULL, 200, trashedNotes(user))
          /\ UNCHANGED <<notes, images, usedIds>>

\* DELETE /api/trash: removes the caller's notes of the trash with their
\* images
TrashDELETE(user) ==
  /\ UNCHANGED outsideNotes
  /\ IF user = NULL THEN Unauthorized("DELETE /api/trash", NULL)
     ELSE LET noteIds == trashedNotes(user)
          IN /\ Respond("DELETE /api/trash", user, NULL, 200,
                        [deleted |-> Cardinality(noteIds)])
             /\ images' = images \ noteIds
             /\ notes' = [id \in NoteIds |->
                            IF id \in noteIds THEN NULL ELSE notes[id]]
             /\ UNCHANGED usedIds

\* POST /api/images: a valid image file for a note of the caller
ImagesPOST(user, noteId) ==
  /\ UNCHANGED outsideNotes
  /\ IF user = NULL THEN Unauthorized("POST /api/images", noteId)
     ELSE IF ~RowOf(noteId, user) THEN NotFound("POST /api/images", user, noteId)
     ELSE /\ images' = images \cup {noteId}
          /\ Respond("POST /api/images", user, noteId, 201, "image")
          /\ UNCHANGED <<notes, usedIds>>

NextNotes ==
  \/ \E user \in Callers, q \in {"", "a"} : NotesGET(user, q)
  \/ \E user \in Callers, content \in Contents : NotesPOST(user, content)
  \/ \E user \in Callers, id \in NoteIds : NoteGET(user, id)
  \/ \E user \in Callers, id \in NoteIds, body \in Bodies : NotePUT(user, id, body)
  \/ \E user \in Callers, id \in NoteIds : NoteDELETE(user, id)
  \/ \E user \in Callers, id \in NoteIds : PinPOST(user, id)
  \/ \E user \in Callers, id \in NoteIds : RestorePOST(user, id)
  \/ \E user \in Callers, id \in NoteIds : PermanentDELETE(user, id)
  \/ \E user \in Callers : TrashGET(user)
  \/ \E user \in Callers : TrashDELETE(user)
  \/ \E user \in Callers, noteId \in NoteIds : ImagesPOST(user, noteId)

\* the notes API of a new installation; the sketch engine stays as constructed
InitNotes == Init /\ session = "view"

SpecNotes == InitNotes /\ [][NextNotes]_vars

\* ============================================================= rate limiter
\* what lies outside the rate limiter
outsideLimit == <<sketchVars, notesVars, authVars, mwVars, saveVars>>

\* the options the callers pass: a window and the requests allowed in it
LimitOptions == {[windowMs |-> w, max |-> n] : w \in {2}, n \in {1, 2}}

\* rateLimit with > in the place of >= in the test of line 14
rateLimitOneMore(ip, options) ==
  LET record == ipRequests[ip]
  IN IF record = NULL \/ now > record.resetTime
       THEN /\ ipRequests' = [ipRequests EXCEPT ![ip] =
                                [count |-> 1,
                                 resetTime |-> now + options.windowMs]]
            /\ limited' = [ip |-> ip, options |-> options, success |-> TRUE,
                           remaining |-> options.max - 1,
                           renewed |-> record # NULL]
       ELSE IF record.count > options.max
              THEN /\ UNCHANGED ipRequests
                   /\ limited' = [ip |-> ip, options |-> options,
                                  success |-> FALSE, remaining |-> 0,
                                  renewed |-> FALSE]
              ELSE /\ ipRequests' = [ipRequests EXCEPT ![ip].count = @ + 1]
                   /\ limited' = [ip |-> ip, options |-> options,
                                  success |-> TRUE,
                                  remaining |-> options.max - (record.count + 1),
                                  renewed |-> FALSE]

\* rateLimit (rate-limit.ts lines 4-20)
rateLimit(ip, options) ==
  LET record == ipRequests[ip]
  IN IF record = NULL \/ now > record.resetTime
       THEN /\ ipRequests' = [ipRequests EXCEPT ![ip] =
                                [count |-> 1,
                                 resetTime |-> now + options.windowMs]]
            /\ limited' = [ip |-> ip, options |-> options, success |-> TRUE,
                           remaining |-> options.max - 1,
                           renewed |-> record # NULL]
       ELSE IF record.count >= options.max
              THEN /\ UNCHANGED ipRequests
                   /\ limited' = [ip |-> ip, options |-> options,
                                  success |-> FALSE, remaining |-> 0,
                                  renewed |-> FALSE]
              ELSE /\ ipRequests' = [ipRequests EXCEPT ![ip].count = @ + 1]
                   /\ limited' = [ip |-> ip, options |-> options,
                                  success |-> TRUE,
                                  remaining |-> options.max - (record.count + 1),
                                  renewed |-> FALSE]

\* a caller asks the limiter
RateLimitCall(ip, options) ==
  /\ rateLimit(ip, options)
  /\ UNCHANGED <<now, outsideLimit>>

\* the interval of lines 23-28 deletes the entries whose window is over
CleanUp ==
  /\ \E ip \in Ips : ipRequests[ip] # NULL /\ now > ipRequests[ip].resetTime
  /\ ipRequests' = [ip \in Ips |->
                      IF ipRequests[ip] # NULL /\ now > ipRequests[ip].resetTime
                        THEN NULL ELSE ipRequests[ip]]
  /\ limited' = NULL
  /\ UNCHANGED <<now, outsideLimit>>

\* time passes
Tick ==
  /\ now < MaxNow
  /\ now' = now + 1
  /\ limited' = NULL
  /\ UNCHANGED <<ipRequests, outsideLimit>>

NextLimit ==
  \/ \E ip \in Ips, options \in LimitOptions : RateLimitCall(ip, options)
  \/ CleanUp
  \/ Tick

\* the rate limiter of a new process; the rest stays as constructed
InitLimit == Init /\ session = "view"

SpecLimit == InitLimit /\ [][NextLimit]_vars

\* =============================================================== auth routes
\* what lies outside the auth routes and the rate limiter they call
outsideAuth == <<sketchVars, notesVars, mwVars, saveVars>>

\* the email field of a request: none, of a user, of nobody
Emails == {"", "u1@test.com", "u2@test.com", "nobody@test.com"}

\* the password field of a request: none, too short, two that are accepted
Passwords == {"", "short", "password-a", "password-b"}

\* the token field of a reset request: none, a value never issued, the uuid
TokenFields == {"", "invalid-token-value"} \cup TokenIds

\* the options of the rate limit of login (route.ts line 56)
LoginLimit == [windowMs |-> 2, max |-> 2]

\* SELECT ... FROM users WHERE email = ?
usersByEmail(email) == {id \in UserIds : users[id].email = email}

\* the successful resets of the password of a user so far
resetsOf(userId) ==
  LET RECURSIVE Sum(_)
      Sum(T) == IF T = {} THEN 0
                ELSE LET t == CHOOSE t \in T : TRUE
                     IN (IF resetTokens[t] # NULL /\ resetTokens[t].user_id = userId
                           THEN resetCount[t] ELSE 0)
                        + Sum(T \ {t})
  IN Sum(TokenIds)

\* signToken: the payload of the JWT; resets is the number of resets of the
\* user made before the token was signed
signToken(userId, tokenVersion) ==
  [sub |-> userId, token_version |-> tokenVersion, resets |-> resetsOf(userId)]

\* getAuthUser (auth.ts lines 45-74) for the cookie of a request: the user of
\* a token whose token_version is that of the row, or NULL
getAuthUser(cookie) ==
  IF cookie = NULL THEN NULL
  ELSE IF cookie.sub \notin UserIds THEN NULL
  ELSE IF cookie.token_version # users[cookie.sub].token_version THEN NULL
  ELSE [id |-> cookie.sub]

\* the route, the email or token the request names, and the status
AuthRespond(route, subject, status) ==
  authed' = [route |-> route, subject |-> subject, status |-> status]

\* POST /api/auth/login: the rate limit, then the check of the password, then
\* the session cookie
LoginPOST(ip, email, password) ==
  /\ UNCHANGED <<now, outsideAuth, users, resetTokens, resetCount>>
  /\ rateLimit(ip, LoginLimit)
  /\ IF ~limited'.success
       THEN /\ AuthRespond("POST /api/auth/login", email, 429)
            /\ UNCHANGED cookies
     ELSE IF email = "" \/ password = ""
       THEN /\ AuthRespond("POST /api/auth/login", email, 400)
            /\ UNCHANGED cookies
     ELSE IF \A id \in usersByEmail(email) :
               ~verifyPassword(password, users[id].password_hash)
       THEN /\ AuthRespond("POST /api/auth/login", email, 401)
            /\ UNCHANGED cookies
     ELSE \E id \in usersByEmail(email) :
            /\ cookies' = cookies \cup {signToken(id, users[id].token_version)}
            /\ AuthRespond("POST /api/auth/login", email, 200)

\* POST /api/auth/forgot-password: a token of uuidv4 that expires in one
\* hour, which is two steps of the clock
ForgotPOST(email) ==
  /\ UNCHANGED <<limitVars, outsideAuth, users, cookies, resetCount>>
  /\ IF email = ""
       THEN /\ AuthRespond("POST /api/auth/forgot-password", email, 400)
            /\ UNCHANGED resetTokens
     ELSE IF usersByEmail(email) = {}
       THEN /\ AuthRespond("POST /api/auth/forgot-password", email, 200)
            /\ UNCHANGED resetTokens
     ELSE \E id \in usersByEmail(email) :
          \E token \in {t \in TokenIds : resetTokens[t] = NULL} :
            /\ resetTokens' = [resetTokens EXCEPT ![token] =
                                 [user_id |-> id, expires_at |-> now + 2,
                                  used_at |-> NULL]]
            /\ AuthRespond("POST /api/auth/forgot-password", email, 200)

\* the row SELECT ... WHERE token = ? AND used_at IS NULL AND expires_at >
\* datetime('now') finds
validToken(token) ==
  /\ token \in TokenIds
  /\ resetTokens[token] # NULL
  /\ resetTokens[token].used_at = NULL
  /\ resetTokens[token].expires_at > now

\* a reset that does not mark the token as used
ResetPOSTKeepsToken(token, password) ==
  /\ UNCHANGED <<limitVars, outsideAuth, cookies>>
  /\ IF token = "" \/ password = "" \/ Len(password) < 8 \/ ~validToken(token)
       THEN /\ AuthRespond("POST /api/auth/reset-password", token, 400)
            /\ UNCHANGED <<users, resetTokens, resetCount>>
       ELSE /\ users' = [users EXCEPT ![resetTokens[token].user_id].password_hash =
                                       hashPassword(password)]
            /\ UNCHANGED resetTokens
            /\ resetCount' = [resetCount EXCEPT ![token] = @ + 1]
            /\ AuthRespond("POST /api/auth/reset-password", token, 200)

\* POST /api/auth/reset-password (route.ts lines 5-62)
ResetPOST(token, password) ==
  /\ UNCHANGED <<limitVars, outsideAuth, cookies>>
  /\ IF token = "" \/ password = "" \/ Len(password) < 8 \/ ~validToken(token)
       THEN /\ AuthRespond("POST /api/auth/reset-password", token, 400)
            /\ UNCHANGED <<users, resetTokens, resetCount>>
       ELSE /\ users' = [users EXCEPT ![resetTokens[token].user_id].password_hash =
                                       hashPassword(password)]
            /\ resetTokens' = [resetTokens EXCEPT ![token].used_at = Now]
            /\ resetCount' = [resetCount EXCEPT ![token] = @ + 1]
            /\ AuthRespond("POST /api/auth/reset-password", token, 200)

\* time passes for the auth routes
AuthTick ==
  /\ now < MaxNow
  /\ now' = now + 1
  /\ authed' = NULL
  /\ UNCHANGED <<ipRequests, limited, outsideAuth, users, resetTokens, cookies,
                 resetCount>>

NextAuth ==
  \/ \E ip \in {"ip-a"}, email \in Emails, password \in Passwords :
       LoginPOST(ip, email, password)
  \/ \E email \in Emails : ForgotPOST(email)
  \/ \E token \in TokenFields, password \in Passwords : ResetPOST(token, password)
  \/ AuthTick

\* the auth routes of a new process with two users
InitAuth == Init /\ session = "view"

SpecAuth == InitAuth /\ [][NextAuth]_vars

\* ================================================================ middleware
\* what lies outside the middleware
outsideMiddleware == <<sketchVars, notesVars, limitVars, authVars, saveVars>>

\* A string is the sequence of the pieces it is made of, cut where the
\* prefixes that the middleware tests end, so that startsWith is a test of
\* the first pieces.
startsWith(string, prefix) ==
  /\ Len(string) >= Len(prefix)
  /\ SubSeq(string, 1, Len(prefix)) = prefix

Pathnames ==
  {<<"/api/", "notes">>, <<"/api/", "notes", "/n1/pin">>, <<"/api/", "trash">>,
   <<"/api/", "images", "/test.png">>, <<"/api/", "auth/", "me">>,
   <<"/api/", "auth/", "login">>, <<"/api/", "auth/", "login", "/x">>,
   <<"/api/", "auth/", "register">>, <<"/api/", "auth/", "forgot-password">>,
   <<"/api/", "auth/", "reset-password">>, <<"/api/", "auth/", "logout">>,
   <<"/_next/", "static">>, <<"/favicon.ico">>, <<"/login">>, <<"/register">>,
   <<"/forgot-password">>, <<"/reset-password">>, <<"/">>, <<"/api">>}

Methods == {"GET", "HEAD", "POST", "PUT", "DELETE", "PATCH", "post"}

\* String.prototype.toUpperCase on the methods above
toUpperCase(method) == IF method = "post" THEN "POST" ELSE method

\* a header that may be missing: NULL or the value
Origins == {NULL, [value |-> "https://app.test"], [value |-> "https://evil.test"]}

Hosts == {NULL, [value |-> "app.test"]}

Protos == {NULL, [value |-> "http"]}

\* NEXT_PUBLIC_APP_URL: not set, or a URL with its origin and its path
AppUrls == {NULL, [origin |-> "https://app.test", path |-> "/"]}

\* the session cookie: none, or a JWT, which jwtVerify accepts when it is
\* signed with the secret and has not expired, with or without a sub
Tokens ==
  {NULL} \cup [signed : BOOLEAN, expired : BOOLEAN, sub : {NULL, [id |-> "u1"]}]

MiddlewareRequests ==
  [pathname : Pathnames, method : Methods, origin : Origins, host : Hosts,
   proto : Protos, appUrl : AppUrls, token : Tokens]

\* PUBLIC_AUTH_PATHS (lines 16-22)
PUBLIC_AUTH_PATHS ==
  {<<"/api/", "auth/", "login">>, <<"/api/", "auth/", "register">>,
   <<"/api/", "auth/", "forgot-password">>,
   <<"/api/", "auth/", "reset-password">>, <<"/api/", "auth/", "logout">>}

isPublicAuthRoute(pathname) ==
  \E p \in PUBLIC_AUTH_PATHS : startsWith(pathname, p)

\* verifyTokenEdge (lines 28-37): the payload, or NULL when jwtVerify throws
verifyTokenEdge(token) ==
  IF token.signed /\ ~token.expired THEN [sub |-> token.sub] ELSE NULL

\* getExpectedOrigin (lines 39-48)
getExpectedOrigin(req) ==
  IF req.appUrl # NULL THEN [value |-> req.appUrl.origin]
  ELSE IF req.host = NULL THEN NULL
  ELSE [value |-> (IF req.proto # NULL THEN req.proto.value ELSE "https")
                    \o "://" \o req.host.value]

MwNext == [kind |-> "next"]
MwJson(status) == [kind |-> "json", status |-> status]
MwRedirect == [kind |-> "redirect", to |-> "/login"]

\* the token check that closes both branches of the middleware
tokenCheck(req, refused) ==
  IF req.token = NULL THEN refused
  ELSE IF verifyTokenEdge(req.token) = NULL THEN refused
  ELSE IF verifyTokenEdge(req.token).sub = NULL THEN refused
  ELSE MwNext

\* a middleware that lets a request without an Origin header pass the check
middlewareLaxOrigin(req) ==
  LET pathname == req.pathname
      method == toUpperCase(req.method)
      origin == req.origin
      expectedOrigin == getExpectedOrigin(req)
  IN IF startsWith(pathname, <<"/_next/">>) \/ pathname = <<"/favicon.ico">>
       THEN MwNext
     ELSE IF \/ startsWith(pathname, <<"/login">>)
             \/ startsWith(pathname, <<"/register">>)
             \/ startsWith(pathname, <<"/forgot-password">>)
             \/ startsWith(pathname, <<"/reset-password">>)
       THEN MwNext
     ELSE IF startsWith(pathname, <<"/api/">>)
       THEN IF isPublicAuthRoute(pathname) THEN MwNext
            ELSE IF /\ method \in {"POST", "PUT", "DELETE", "PATCH"}
                    /\ origin # NULL
                    /\ (expectedOrigin = NULL \/ origin # expectedOrigin)
              THEN MwJson(403)
            ELSE tokenCheck(req, MwJson(401))
     ELSE tokenCheck(req, MwRedirect)

\* middleware (part_011 lines 50-124)
middleware(req) ==
  LET pathname == req.pathname
      method == toUpperCase(req.method)
      origin == req.origin
      expectedOrigin == getExpectedOrigin(req)
  IN IF startsWith(pathname, <<"/_next/">>) \/ pathname = <<"/favicon.ico">>
       THEN MwNext
     ELSE IF \/ startsWith(pathname, <<"/login">>)
             \/ startsWith(pathname, <<"/register">>)
             \/ startsWith(pathname, <<"/forgot-password">>)
             \/ startsWith(pathname, <<"/reset-password">>)
       THEN MwNext
     ELSE IF startsWith(pathname, <<"/api/">>)
       THEN IF isPublicAuthRoute(pathname) THEN MwNext
            ELSE IF /\ method \in {"POST", "PUT", "DELETE", "PATCH"}
                    /\ (origin = NULL \/ expectedOrigin = NULL
                          \/ origin # expectedOrigin)
              THEN MwJson(403)
            ELSE tokenCheck(req, MwJson(401))
     ELSE tokenCheck(req, MwRedirect)

\* a request reaches the middleware, which keeps nothing from one request to
\* the next: a behaviour follows one request
Middleware ==
  /\ mwRequest = NULL
  /\ \E req \in MiddlewareRequests :
       /\ mwRequest' = req
       /\ mwResponse' = middleware(req)
  /\ UNCHANGED outsideMiddleware

NextMiddleware == Middleware

InitMiddleware == Init /\ session = "view"

SpecMiddleware == InitMiddleware /\ [][NextMiddleware]_vars

\* ================================================================= autosave
\* useAutosave (use-autosave.ts) in the ResizableWorkspace of one note, which
\* AppPage keys by the note id (page.tsx lines 46-51): a switch to another
\* note unmounts the workspace, and selecting the note again mounts it with
\* the content the server has.  content, sketchData and sketchImage are
\* handled alike by the hook; the content stands for the three.
outsideSave == <<sketchVars, notesVars, limitVars, authVars, mwVars>>

\* the contents the user gives the note
EditedContents == {"", "# a", "# b"}

\* save (lines 36-69) up to the fetch: the request in flight is aborted, and
\* a PUT with the content the callback has closed over is sent.  An aborted
\* request has reached the server or not.
save(content) ==
  /\ abortRef' = [content |-> content]
  /\ saveStatus' = "saving"
  /\ sent' = content
  /\ IF abortRef = NULL
       THEN UNCHANGED stored
       ELSE stored' \in {stored, abortRef.content}

\* the cleanups that run on unmount (lines 84-86 and 90-95): the timer is
\* cleared and the request in flight aborted; nothing is flushed
unmountCleanup ==
  /\ timerRef' = NULL
  /\ abortRef' = NULL
  /\ IF abortRef = NULL
       THEN UNCHANGED stored
       ELSE stored' \in {stored, abortRef.content}
  /\ UNCHANGED <<sent, saveStatus>>

\* the user changes the content: setContent, and the debounce effect (lines
\* 71-87) runs again; its previous run is cleaned up (lines 84-86), and a
\* content that differs from the last saved one starts the timer anew
ContentChange(content) ==
  /\ workspaceMounted
  /\ edits < MaxEdits
  /\ content # workspaceContent
  /\ workspaceContent' = content
  /\ edited' = content
  /\ edits' = edits + 1
  /\ timerRef' = IF content # lastSavedRef THEN [content |-> content] ELSE NULL
  /\ UNCHANGED <<workspaceMounted, lastSavedRef, abortRef, saveStatus, stored,
                 sent, outsideSave>>

\* the debounce delay has passed: the timer calls save
TimerFires ==
  /\ workspaceMounted
  /\ timerRef # NULL
  /\ timerRef' = NULL
  /\ save(timerRef.content)
  /\ UNCHANGED <<workspaceMounted, workspaceContent, lastSavedRef, edited,
                 edits, outsideSave>>

\* the response to the request in flight, which is ok (lines 57-61)
SaveResponse ==
  /\ workspaceMounted
  /\ abortRef # NULL
  /\ stored' = abortRef.content
  /\ lastSavedRef' = abortRef.content
  /\ saveStatus' = "saved"
  /\ abortRef' = NULL
  /\ UNCHANGED <<workspaceMounted, workspaceContent, timerRef, sent, edited,
                 edits, outsideSave>>

\* the user selects another note: the workspace is unmounted
Unmount ==
  /\ workspaceMounted
  /\ workspaceMounted' = FALSE
  /\ unmountCleanup
  /\ UNCHANGED <<workspaceContent, lastSavedRef, edited, edits, outsideSave>>

\* the user selects the note again: handleSelect (page.tsx lines 26-35)
\* fetches it, and the hook starts from its content (lines 22-34)
Mount ==
  /\ ~workspaceMounted
  /\ workspaceMounted' = TRUE
  /\ workspaceContent' = stored
  /\ lastSavedRef' = stored
  /\ saveStatus' = "idle"
  /\ UNCHANGED <<timerRef, abortRef, stored, sent, edited, edits, outsideSave>>

NextAutosave ==
  \/ \E content \in EditedContents : ContentChange(content)
  \/ TimerFires
  \/ SaveResponse
  \/ Unmount
  \/ Mount

InitAutosave == Init /\ session = "view"

\* timers fire and requests are answered; the user is bound to nothing
SpecAutosave ==
  /\ InitAutosave
  /\ [][NextAutosave]_vars
  /\ WF_vars(TimerFires)
  /\ WF_vars(SaveResponse)

\* ===================================================================== claims
OpsUndo == {"undo", "undo:noop", "keyUndo", "keyUndo:noop"}
OpsRedo == {"redo", "redo:noop", "keyRedo", "keyRedo:noop"}
OpsUp == {"up:idle", "up:stroke", "up:discard", "up:move", "up:pan", "up:end"}
OpsDown == {"down:ignored", "down:pen", "down:eraseStroke", "down:eraseText",
            "down:eraserMiss", "down:text", "down:moveHit", "down:moveMiss",
            "down:pan"}
OpsMove == {"move:pen", "move:eraseStroke", "move:move", "move:pan"}

\* the history log after push(doc), as section 4.5 of the spec words it
SpecPush(entries, currentIndex, doc) ==
  LET kept == [i \in 1..(currentIndex + 1) |-> entries[i]]
      all == kept \o <<doc>>
  IN IF Len(all) > MAX_HISTORY
       THEN [entries |-> [i \in 1..(Len(all) - 1) |-> all[i + 1]],
             currentIndex |-> Len(all) - 2]
       ELSE [entries |-> all, currentIndex |-> Len(all) - 1]

\* the step made exactly one push of the document it leaves
OnePush ==
  LET r == SpecPush(historyRef, historyIndexRef, stateRef')
  IN historyRef' = r.entries /\ historyIndexRef' = r.currentIndex

\* C1: in every reachable state 0 <= currentIndex < len(entries) and
\* len(entries) <= 50
C1_HistoryBounds ==
  /\ 0 <= historyIndexRef
  /\ historyIndexRef < Len(historyRef)
  /\ Len(historyRef) <= MAX_HISTORY

\* a push has evicted an entry from a full log
C1_Witness ==
  /\ pushes = 1
  /\ commits > MAX_HISTORY
  /\ Len(historyRef) = MAX_HISTORY
  /\ historyIndexRef = MAX_HISTORY - 1

\* C2: a push drops the entries after currentIndex, appends a copy of the
\* document and makes it current; at the cap the single oldest entry is
\* evicted and the order kept; after 51 commits with no undo the log holds
\* exactly 50 entries and the current entry is the last one
C2_Push ==
  /\ [][pushes' = 1 => OnePush]_vars
  /\ []((commits >= MAX_HISTORY + 1 /\ ~undone) =>
          /\ Len(historyRef) = MAX_HISTORY
          /\ historyIndexRef = MAX_HISTORY - 1)

\* the 51st commit, made by placing a text, is the current entry of a full log
C2_Witness ==
  /\ commits = MAX_HISTORY + 1
  /\ ~undone
  /\ pushes = 1
  /\ Len(historyRef) = MAX_HISTORY
  /\ Len(historyRef[MAX_HISTORY].textElements) > 0
  /\ historyRef[MAX_HISTORY] # historyRef[MAX_HISTORY - 1]

\* a resize release that changed the canvas size
ResizeCommitted ==
  /\ lastOp' = "resizeUp"
  /\ \/ stateRef'.canvasWidth # resizeStartRef.w
     \/ stateRef'.canvasHeight # resizeStartRef.h

\* C3: after a committed mutation (one of the pushing commits, or a resize
\* release) no entry lies ahead of currentIndex, so redo is a no-op
C3_RedoBranchGone ==
  [][(pushes' = 1 \/ ResizeCommitted) =>
       historyIndexRef' = Len(historyRef') - 1]_vars

\* C4: undo followed by redo, from a state with no gesture in progress,
\* restores the live document that preceded the undo
C4_UndoRedoSymmetry ==
  [][(savedDoc # NULL /\ pointer = "up" /\ textInput = NULL
        /\ lastOp' \in {"redo", "keyRedo"}) => stateRef' = savedDoc]_vars

\* C5: undo at currentIndex = 0 and redo at the last entry, from the toolbar
\* or the keyboard, change nothing, raise nothing and notify nobody
C5_BoundsNoop ==
  [][(\/ lastOp' \in OpsUndo /\ historyIndexRef = 0
      \/ lastOp' \in OpsRedo /\ historyIndexRef = Len(historyRef) - 1) =>
       /\ UNCHANGED engineVars
       /\ UNCHANGED crashed
       /\ emits' = 0
       /\ pushes' = 0]_vars

\* Ctrl+Z at the first entry of a log that has entries to redo
C5_Witness ==
  /\ lastOp = "keyUndo:noop"
  /\ historyIndexRef = 0
  /\ Len(historyRef) > 1

C7_ResizePush ==
  [][ResizeCommitted =>
       /\ pushes' = 1
       /\ OnePush
       /\ historyRef'[historyIndexRef' + 1].canvasWidth = canvasSize.width
       /\ historyRef'[historyIndexRef' + 1].canvasHeight = canvasSize.height]_vars

\* C8: with no move drag and no resize drag in progress the live document
\* equals entries[currentIndex]
C8_LiveEqualsCurrent ==
  (Mounted /\ ~(isDrawingRef /\ movingTextRef # NULL) /\ ~isResizingRef) =>
    stateRef = historyRef[historyIndexRef + 1]

\* C9: move-drag frames, pan events, opening the text editor and Escape leave
\* the history log alone; all but the move-drag frames leave the document
\* alone too
C9_NoPushFrames ==
  [][/\ (\/ lastOp' = "move:move"
         \/ lastOp' \in {"down:pan", "move:pan", "up:pan"}
         \/ activeToolRef = "pan" /\ lastOp' \in OpsDown \cup OpsMove \cup OpsUp
         \/ lastOp' \in {"down:text", "escape"}) =>
          UNCHANGED <<historyRef, historyIndexRef>> /\ pushes' = 0
     /\ (\/ lastOp' \in {"down:pan", "move:pan", "up:pan"}
         \/ activeToolRef = "pan" /\ lastOp' \in OpsDown \cup OpsMove \cup OpsUp
         \/ lastOp' \in {"down:text", "escape"}) =>
          UNCHANGED stateRef]_vars

\* Escape has closed the text editor without a commit
C9_Witness ==
  /\ lastOp = "escape"
  /\ textInput = NULL
  /\ pushes = 0

\* C10: pointer-up or pointer-cancel of a pen stroke with fewer than 2
\* buffered points changes neither document nor history and emits nothing;
\* with 2 or more it appends one stroke of the buffered points, the active
\* colour and the default width on top
C10_StrokeThreshold ==
  [][(lastOp' \in OpsUp /\ isDrawingRef /\ activeToolRef = "pen") =>
       IF Len(currentStrokeRef) < 2
         THEN /\ UNCHANGED <<stateRef, historyRef, historyIndexRef>>
              /\ emits' = 0
         ELSE /\ Len(stateRef'.strokes) = Len(stateRef.strokes) + 1
              /\ SubSeq(stateRef'.strokes, 1, Len(stateRef.strokes))
                   = stateRef.strokes
              /\ LET s == stateRef'.strokes[Len(stateRef'.strokes)]
                 IN /\ s.points = currentStrokeRef
                    /\ s.color = activeColorRef
                    /\ s.width = DEFAULT_PEN_WIDTH
              /\ stateRef'.textElements = stateRef.textElements]_vars

\* a pen-down released without a second point
C10_Witness ==
  /\ lastOp = "up:discard"
  /\ currentStrokeRef = <<>>
  /\ emits = 0

\* every stroke of a document has at least 2 points and every text element
\* has text that is not empty once trimmed
WellFormedDoc(doc) ==
  /\ \A i \in 1..Len(doc.strokes) : Len(doc.strokes[i].points) >= 2
  /\ \A i \in 1..Len(doc.textElements) : Trim(doc.textElements[i].text) # <<>>

\* the document of the last onChange call, if there was one
EmittedDocs == IF emitted = <<>> THEN {} ELSE {JSONParse(emitted)}

\* C11: from an empty or a valid loaded document, every stroke of the live
\* document, of every history snapshot and of every emitted document has at
\* least 2 points and every text element has non-empty trimmed text; a pen-down
\* starts the one buffer afresh, and neither it nor a pen sample touches the
\* document, the history or the host
C11_CommittedContent ==
  /\ [](Mounted =>
          /\ WellFormedDoc(stateRef)
          /\ \A i \in 1..Len(historyRef) : WellFormedDoc(historyRef[i])
          /\ \A doc \in EmittedDocs : WellFormedDoc(doc))
  /\ [][lastOp' \in {"down:pen", "move:pen"} =>
          /\ UNCHANGED <<stateRef, historyRef, historyIndexRef, emitted>>
          /\ emits' = 0 /\ pushes' = 0
          /\ (lastOp' = "down:pen" => Len(currentStrokeRef') = 1)]_vars

\* a second pen stroke is in progress over a committed and emitted first one
C11_Witness ==
  /\ isDrawingRef /\ activeToolRef = "pen"
  /\ Len(currentStrokeRef) = 1
  /\ Len(stateRef.strokes) = 1
  /\ EmittedDocs = {stateRef}
  /\ historyRef[historyIndexRef + 1] = stateRef

\* a sequence without its i-th element
RemoveAt(seq, i) == SubSeq(seq, 1, i - 1) \o SubSeq(seq, i + 1, Len(seq))

\* indexes of the strokes with a sampled point within the eraser radius of
\* (wx, wy), and of the text elements whose box holds (wx, wy)
StrokesNear(doc, wx, wy) ==
  {i \in 1..Len(doc.strokes) :
     \E j \in 1..Len(doc.strokes[i].points) :
       LET pt == doc.strokes[i].points[j]
       IN (wx - pt.x) * (wx - pt.x) + (wy - pt.y) * (wy - pt.y)
            <= ERASER_PROXIMITY * ERASER_PROXIMITY}
TextsAt(doc, wx, wy) ==
  {i \in 1..Len(doc.textElements) :
     LET te == doc.textElements[i]
     IN /\ te.position.x <= wx /\ wx <= te.position.x + TextWidth(te.text)
        /\ te.position.y <= wy /\ wy <= te.position.y + te.fontSize}

\* C12: an eraser pointer-down removes the topmost stroke near the point if
\* there is one, and then no text element; otherwise the topmost text element
\* whose box holds the point; otherwise nothing; all other elements keep their
\* content and order
C12_EraserDown ==
  [][(lastOp' \in OpsDown /\ activeToolRef = "eraser" /\ textInput = NULL) =>
       LET wx == lastPoint'.x - panOffsetRef.x
           wy == lastPoint'.y - panOffsetRef.y
           strokesHit == StrokesNear(stateRef, wx, wy)
           textsHit == TextsAt(stateRef, wx, wy)
       IN /\ stateRef'.canvasWidth = stateRef.canvasWidth
          /\ stateRef'.canvasHeight = stateRef.canvasHeight
          /\ IF strokesHit # {}
               THEN /\ stateRef'.strokes =
                         RemoveAt(stateRef.strokes, MaxOf(strokesHit))
                    /\ stateRef'.textElements = stateRef.textElements
             ELSE IF textsHit # {}
               THEN /\ stateRef'.textElements =
                         RemoveAt(stateRef.textElements, MaxOf(textsHit))
                    /\ stateRef'.strokes = stateRef.strokes
             ELSE stateRef' = stateRef]_vars

\* an eraser click on a point of both a stroke and a text element has removed
\* the stroke and kept the text element
C12_Witness ==
  /\ lastOp = "down:eraseStroke"
  /\ stateRef.strokes = <<>>
  /\ TextsAt(stateRef, lastPoint.x - panOffsetRef.x,
             lastPoint.y - panOffsetRef.y) # {}

\* C13: an eraser pointer-move never removes a text element, removes a stroke
\* only in a drag that began with an eraser pointer-down that hit nothing, and
\* removes nothing after a pointer-down that itself erased an element
C13_EraserMove ==
  /\ [][(lastOp' \in OpsMove /\ activeToolRef = "eraser") =>
          /\ stateRef'.textElements = stateRef.textElements
          /\ (stateRef' # stateRef => downOp = "down:eraserMiss")]_vars
  /\ [](downOp \in {"down:eraseStroke", "down:eraseText"} => ~isDrawingRef)

\* some sampled point of some stroke lies at squared distance d2 <= 100 of
\* (wx, wy), i.e. at Euclidean distance <= 10
SomePointWithin(doc, wx, wy) ==
  \E i \in 1..Len(doc.strokes) : \E j \in 1..Len(doc.strokes[i].points) :
    LET pt == doc.strokes[i].points[j]
    IN (wx - pt.x) * (wx - pt.x) + (wy - pt.y) * (wy - pt.y) <= 100
HasPoint(doc, pt) ==
  \E i \in 1..Len(doc.strokes) : \E j \in 1..Len(doc.strokes[i].points) :
    doc.strokes[i].points[j] = pt
\* the step is an eraser pointer-down, or an eraser sample of a drag
EraserTest ==
  /\ activeToolRef = "eraser"
  /\ \/ lastOp' \in OpsDown /\ textInput = NULL
     \/ lastOp' \in OpsMove

\* C14: the eraser removes a stroke if and only if one of its sampled points
\* lies at Euclidean distance <= 10 of the query point, 10 included: with a
\* point at (10,0), a click at (10,0) or (17,0) erases, and a click at (25,0)
\* does not
C14_StrokeHit ==
  [][EraserTest =>
       LET wx == lastPoint'.x - panOffsetRef.x
           wy == lastPoint'.y - panOffsetRef.y
       IN /\ (stateRef'.strokes # stateRef.strokes) <=>
               SomePointWithin(stateRef, wx, wy)
          /\ (HasPoint(stateRef, Pt(10, 0)) /\ Pt(wx, wy) \in {Pt(10, 0), Pt(17, 0)})
               => Len(stateRef'.strokes) = Len(stateRef.strokes) - 1
          /\ (stateRef.strokes = ProbeDoc(Pt(10, 0), Pt(-30, 0)).strokes
                /\ Pt(wx, wy) = Pt(25, 0))
               => stateRef'.strokes = stateRef.strokes]_vars

\* a click at distance exactly 10 of a stroke's only near point has erased it
C14_Witness ==
  /\ lastOp = "down:eraseStroke"
  /\ lastPoint = Pt(16, 8)
  /\ panOffsetRef = Pt(0, 0)
  /\ stateRef.strokes = <<>>
  /\ historyRef[historyIndexRef] = ProbeDoc(Pt(-30, 0), Pt(10, 0))

\* among the elements seq[i], i in hits, the one removed between seq and
\* after is the last inserted
LatestRemoved(seq, after, hits) ==
  \E k \in hits : after = RemoveAt(seq, k) /\ \A i \in hits : i <= k

\* C15: of several strokes, or several text elements, that match the query
\* point the eraser removes, and the move tool picks, the one inserted last;
\* this holds again for the elements that are left once it is removed
C15_TopmostHit ==
  [][LET wx == lastPoint'.x - panOffsetRef.x
         wy == lastPoint'.y - panOffsetRef.y
         strokesHit == StrokesNear(stateRef, wx, wy)
         textsHit == TextsAt(stateRef, wx, wy)
     IN /\ (EraserTest /\ stateRef'.strokes # stateRef.strokes) =>
             LatestRemoved(stateRef.strokes, stateRef'.strokes, strokesHit)
        /\ (EraserTest /\ stateRef'.textElements # stateRef.textElements) =>
             LatestRemoved(stateRef.textElements, stateRef'.textElements, textsHit)
        /\ (lastOp' \in OpsDown /\ activeToolRef = "move" /\ textInput = NULL
              /\ textsHit # {}) =>
             /\ movingTextRef' # NULL
             /\ \E k \in textsHit :
                  /\ stateRef.textElements[k].id = movingTextRef'.id
                  /\ \A i \in textsHit : i <= k]_vars

\* the move tool has picked the older of two overlapping text elements after
\* the eraser removed the newer one at the same point
C15_Witness ==
  /\ lastOp = "down:moveHit"
  /\ lastPoint = Pt(18, 7)
  /\ movingTextRef.id = 103
  /\ Len(stateRef.textElements) = 1
  /\ historyIndexRef = 1
  /\ historyRef[1] = StackDoc

OpsTextCommit == {"blur:commitText", "blur:discardText",
                  "enter:commitText", "enter:discardText"}

\* C16: a blur or Enter on an editor whose trimmed text is not empty appends
\* one text element at the world point of the pointer-down that opened the
\* editor, with the trimmed text, the active colour and the default font size;
\* on empty or blank text it closes the editor and changes, pushes and emits
\* nothing
C16_TextCommit ==
  [][/\ lastOp' = "down:text" =>
          textInput' = [worldX |-> lastPoint'.x - panOffsetRef.x,
                        worldY |-> lastPoint'.y - panOffsetRef.y,
                        value |-> <<>>]
     /\ (lastOp' \in OpsTextCommit /\ textInput # NULL) =>
          /\ textInput' = NULL
          /\ IF Trim(textInput.value) # <<>>
               THEN /\ Len(stateRef'.textElements) = Len(stateRef.textElements) + 1
                    /\ SubSeq(stateRef'.textElements, 1, Len(stateRef.textElements))
                         = stateRef.textElements
                    /\ LET te == stateRef'.textElements[Len(stateRef'.textElements)]
                       IN /\ te.text = Trim(textInput.value)
                          /\ te.position = Pt(textInput.worldX, textInput.worldY)
                          /\ te.color = activeColorRef
                          /\ te.fontSize = DEFAULT_FONT_SIZE
                          /\ \A i \in 1..Len(stateRef.textElements) :
                               stateRef.textElements[i].id # te.id
                    /\ stateRef'.strokes = stateRef.strokes
                    /\ pushes' = 1 /\ emits' = 1
               ELSE /\ UNCHANGED <<stateRef, historyRef, historyIndexRef>>
                    /\ pushes' = 0 /\ emits' = 0]_vars

\* a blur has committed " Hi" as "Hi" at the point where the editor was opened
C16_Witness ==
  /\ lastOp = "blur:commitText"
  /\ textInput = NULL
  /\ Len(stateRef.textElements) = 1
  /\ stateRef.textElements[1].text = <<"H", "i">>
  /\ stateRef.textElements[1].position = Pt(20, 0)
  /\ JSONParse(emitted) = stateRef

OpsTool == {"tool", "tool:commitText", "tool:discardText"}

\* C17: a change to another tool while a text editor is open commits the
\* editor if its trimmed text is not empty and discards it otherwise, and
\* leaves no editor open; so no tool but the text tool ever meets an open
\* editor, and a pointer-down that meets one is ignored
C17_ToolChangeCommits ==
  /\ [][(lastOp' \in OpsTool /\ textInput # NULL
           /\ activeToolRef' # activeToolRef) =>
          /\ textInput' = NULL
          /\ IF Trim(textInput.value) # <<>>
               THEN /\ Len(stateRef'.textElements) = Len(stateRef.textElements) + 1
                    /\ stateRef'.textElements[Len(stateRef'.textElements)].text
                         = Trim(textInput.value)
                    /\ pushes' = 1 /\ OnePush /\ emits' = 1
               ELSE /\ UNCHANGED <<stateRef, historyRef, historyIndexRef>>
                    /\ pushes' = 0 /\ emits' = 0]_vars
  /\ [][(lastOp' \in OpsDown /\ textInput # NULL) =>
          UNCHANGED <<stateRef, historyRef, historyIndexRef, isDrawingRef,
                      currentStrokeRef, movingTextRef, panStartRef, textInput>>]_vars
  /\ [](textInput # NULL => activeToolRef = "text")

\* the change from the text tool to the move tool has committed the open editor
C17_Witness ==
  /\ lastOp = "tool:commitText"
  /\ activeToolRef = "move"
  /\ textInput = NULL
  /\ Len(stateRef.textElements) = 1
  /\ historyRef[historyIndexRef + 1] = stateRef

\* the pointer went down with the move tool on a text element, and the move
\* tool is the active tool
MoveDrag == downOp = "down:moveHit" /\ activeToolRef = "move"

\* C18: with the move tool, a pointer-down records the topmost text element
\* under the pointer and its offset and changes nothing, or starts no drag if
\* it hits nothing; each frame of the drag puts that element at the pointer
\* world point minus the offset and changes nothing else; pointer-up makes one
\* push of the document with the final position
C18_MoveDrag ==
  [][/\ (lastOp' \in OpsDown /\ activeToolRef = "move" /\ textInput = NULL) =>
          LET wx == lastPoint'.x - panOffsetRef.x
              wy == lastPoint'.y - panOffsetRef.y
              textsHit == TextsAt(stateRef, wx, wy)
          IN /\ UNCHANGED <<stateRef, historyRef, historyIndexRef>>
             /\ pushes' = 0 /\ emits' = 0
             /\ IF textsHit = {}
                  THEN ~isDrawingRef' /\ UNCHANGED movingTextRef
                  ELSE LET te == stateRef.textElements[MaxOf(textsHit)]
                       IN /\ isDrawingRef'
                          /\ movingTextRef' = [id |-> te.id,
                                               offsetX |-> wx - te.position.x,
                                               offsetY |-> wy - te.position.y]
     /\ (lastOp' \in OpsMove /\ MoveDrag) =>
          LET wx == lastPoint'.x - panOffsetRef.x
              wy == lastPoint'.y - panOffsetRef.y
              old == stateRef.textElements
              new == stateRef'.textElements
          IN /\ Len(new) = Len(old)
             /\ \A i \in 1..Len(old) :
                  IF old[i].id = movingTextRef.id
                    THEN new[i] = [old[i] EXCEPT !.position =
                                     Pt(wx - movingTextRef.offsetX,
                                        wy - movingTextRef.offsetY)]
                    ELSE new[i] = old[i]
             /\ stateRef'.strokes = stateRef.strokes
             /\ stateRef'.canvasWidth = stateRef.canvasWidth
             /\ stateRef'.canvasHeight = stateRef.canvasHeight
             /\ UNCHANGED <<historyRef, historyIndexRef, movingTextRef>>
             /\ pushes' = 0 /\ emits' = 0
     /\ (lastOp' \in OpsUp /\ MoveDrag) =>
          /\ stateRef' = stateRef
          /\ pushes' = 1 /\ OnePush
          /\ historyRef'[historyIndexRef' + 1] = stateRef]_vars

\* a move drag has been released with the newer of two overlapping text
\* elements away from where it was, and the other one where it was
C18_Witness ==
  /\ lastOp = "up:move"
  /\ pushes = 1
  /\ Len(stateRef.textElements) = 2
  /\ stateRef.textElements[1] = StackDoc.textElements[1]
  /\ stateRef.textElements[2].id = 104
  /\ stateRef.textElements[2].position = Pt(-1, -7)
  /\ historyRef[historyIndexRef + 1] = stateRef

\* the tool that is about to handle a pointer event is pan
OpsPan == lastOp' \in OpsDown \cup OpsMove \cup OpsUp /\ activeToolRef = "pan"

\* the pointer went down with the pan tool, and the pan tool is the active tool
PanDrag == downOp = "down:pan" /\ activeToolRef = "pan"

\* C19: after every pointer-move of a pan drag the pan offset is the offset at
\* the pointer-down plus the way from the pointer-down screen point to the
\* current one; no pointer event of the pan tool changes the document or the
\* history, or notifies
C19_PanOffset ==
  /\ [][(lastOp' \in OpsMove /\ PanDrag) =>
          /\ panOffsetRef'.x = panDown.offset.x + (lastPoint'.x - panDown.point.x)
          /\ panOffsetRef'.y = panDown.offset.y + (lastPoint'.y - panDown.point.y)]_vars
  /\ [][OpsPan =>
          /\ UNCHANGED <<stateRef, historyRef, historyIndexRef, emitted>>
          /\ pushes' = 0 /\ emits' = 0]_vars

\* a second pan drag, begun at an offset an earlier drag had left, has moved
\* the view back by the way the pointer went
C19_Witness ==
  /\ lastOp = "move:pan"
  /\ downOp = "down:pan"
  /\ activeToolRef = "pan"
  /\ panDown.point = Pt(20, 0)
  /\ panDown.offset = Pt(20, 0)
  /\ lastPoint = Pt(0, 0)
  /\ panOffsetRef = Pt(0, 0)

\* C20: after every pointer-up or pointer-cancel, whatever tool is active by
\* then, no drag is in progress, the pen buffer is empty, no text element is
\* held by a move drag and no pan anchor is set
C20_NothingDangling ==
  [][lastOp' \in OpsUp =>
       /\ ~isDrawingRef'
       /\ currentStrokeRef' = <<>>
       /\ movingTextRef' = NULL
       /\ panStartRef' = NULL]_vars

\* the pen is the active tool of a drag in progress
PenStroke == isDrawingRef /\ activeToolRef = "pen"

\* C21: in every state in which no pen stroke is in progress the overlay
\* canvas is clear
C21_OverlayClear == ~PenStroke => overlay = NULL

\* the step is a commit: a stroke finalize of two or more points, an eraser
\* hit, a non-empty text commit, a move release, a clear, a resize release, or
\* an undo or redo inside the bounds of the log
CommitEvent ==
  \/ lastOp' \in OpsUp /\ isDrawingRef /\ activeToolRef = "pen"
       /\ Len(currentStrokeRef) >= 2
  \/ lastOp' \in {"down:eraseStroke", "down:eraseText", "move:eraseStroke"}
  \/ lastOp' \in {"blur:commitText", "enter:commitText", "tool:commitText"}
  \/ lastOp' \in OpsUp /\ isDrawingRef /\ activeToolRef = "move"
       /\ movingTextRef # NULL
  \/ lastOp' = "clear"
  \/ lastOp' = "resizeUp"
  \/ lastOp' \in OpsUndo /\ historyIndexRef > 0
  \/ lastOp' \in OpsRedo /\ historyIndexRef < Len(historyRef) - 1

C23_LoadDegrades ==
  (/\ lastOp = "load"
   /\ IF savedData = NULL THEN ~SessionOpensSketch(session)
                          ELSE savedData.json[1] # "doc") =>
    /\ ~crashed
    /\ stateRef = createEmptyState(600, 400)
    /\ historyRef = <<createEmptyState(600, 400)>>
    /\ historyIndexRef = 0

C25_MinCanvas ==
  Mounted =>
    /\ stateRef.canvasWidth >= MIN_CANVAS_WIDTH
    /\ stateRef.canvasHeight >= MIN_CANVAS_HEIGHT
    /\ \A i \in 1..Len(historyRef) :
         /\ historyRef[i].canvasWidth >= MIN_CANVAS_WIDTH
         /\ historyRef[i].canvasHeight >= MIN_CANVAS_HEIGHT
    /\ lastOp = "resizeMove" =>
         /\ canvasSize.width >= MIN_CANVAS_WIDTH
         /\ canvasSize.height >= MIN_CANVAS_HEIGHT

\* the colour the spec shows a stored colour in
Shown(color) == IF isDarkMode /\ color = "#000000" THEN "#ffffff" ELSE color

\* C26: a theme change leaves the live document, the history log and its
\* index alone and tells the host nothing; the serialized document and the
\* exported image of every notification carry the stored colours; the
\* committed canvas shows #000000 as white in the dark theme and every other
\* colour as stored
C26_ThemePresentation ==
  /\ [][isDarkMode' # isDarkMode =>
          /\ UNCHANGED <<stateRef, historyRef, historyIndexRef, emitted, raster>>
          /\ pushes' = 0 /\ emits' = 0]_vars
  /\ [](emittedDoc # NULL =>
          /\ emitted = JSONStringify(emittedDoc)
          /\ Len(raster.strokes) = Len(drawnStrokes(emittedDoc))
          /\ \A i \in 1..Len(raster.strokes) :
               raster.strokes[i] = drawnStrokes(emittedDoc)[i].color
          /\ Len(raster.texts) = Len(emittedDoc.textElements)
          /\ \A i \in 1..Len(raster.texts) :
               raster.texts[i] = emittedDoc.textElements[i].color)
  /\ [](Mounted =>
          /\ committedCanvas # NULL
          /\ Len(committedCanvas.strokes) = Len(drawnStrokes(stateRef))
          /\ \A i \in 1..Len(committedCanvas.strokes) :
               committedCanvas.strokes[i] = Shown(drawnStrokes(stateRef)[i].color)
          /\ Len(committedCanvas.texts) = Len(stateRef.textElements)
          /\ \A i \in 1..Len(committedCanvas.texts) :
               committedCanvas.texts[i] = Shown(stateRef.textElements[i].color))

\* in the dark theme the red stroke of a sketch with a black text element
\* has been erased: the screen shows the text white, the image has it black
C26_Witness ==
  /\ isDarkMode
  /\ lastOp \in {"down:eraseStroke", "move:eraseStroke"}
  /\ emits = 1
  /\ Len(stateRef.textElements) = 1
  /\ stateRef.textElements[1].color = "#000000"
  /\ committedCanvas.texts = <<"#ffffff">>
  /\ raster.texts = <<"#000000">>
  /\ emittedDoc = stateRef

\* the entries a step keeps: all of them when nothing is pushed, and after a
\* push the entries up to the old current one, less the oldest when the log
\* overflowed
KeptEntries ==
  LET kept == SubSeq(historyRef, 1, historyIndexRef + 1)
      front == SubSeq(historyRef', 1, Len(historyRef') - 1)
  IN IF pushes' = 0
       THEN historyRef' = historyRef
       ELSE /\ Len(historyRef') >= 1
            /\ \/ front = kept
               \/ /\ Len(kept) = MAX_HISTORY
                  /\ front = Tail(kept)

\* C27: history entries are immutable deep snapshots: no operation after the
\* load (drawing, erasing, move frames, resize frames writing the canvas size
\* into the live document, undo, redo) changes the content of an entry in the
\* log, the live document is never the same object as an entry, and entries
\* leave the log only by truncation of the redo branch or eviction of the
\* oldest entry
C27_ImmutableEntries ==
  /\ [](aliased = {})
  /\ [][(Mounted /\ Mounted' /\ lastOp' \notin {"load", "switch"})
         => KeptEntries]_vars

\* a resize frame wrote a new canvas size into the live document right after
\* an undo, and the entry the undo installed kept its own size
C27_Witness ==
  /\ Mounted
  /\ lastOp = "sizeEffect"
  /\ Len(historyRef) >= 2
  /\ historyIndexRef + 1 < Len(historyRef)
  /\ historyRef[historyIndexRef + 1].canvasWidth # stateRef.canvasWidth
  /\ historyRef[historyIndexRef + 1].strokes = stateRef.strokes
  /\ historyRef[historyIndexRef + 1].textElements = stateRef.textElements

\* the sketch the mount after the last document switch is given
LoadedDocument ==
  IF savedData.json[1] = "doc" THEN savedData.doc
                               ELSE createEmptyState(600, 400)

\* nothing in progress: no open editor, no stroke being drawn, no text being
\* moved, no pan under way, nothing on the overlay
NothingInProgress ==
  /\ textInput = NULL
  /\ ~isDrawingRef
  /\ currentStrokeRef = <<>>
  /\ movingTextRef = NULL
  /\ panStartRef = NULL
  /\ overlay = NULL

\* C28: a document switch drops the open text editor with the old document,
\* and the new document starts with pan offset (0,0), a history log of the
\* one entry equal to the loaded document with index 0, and no stroke, text
\* element, input in progress or history entry of the previous document
C28_DocumentSwitch ==
  /\ lastOp = "switch" =>
       /\ NothingInProgress
       /\ panOffsetRef = Pt(0, 0)
       /\ stateRef = createEmptyState(600, 400)
       /\ historyRef = <<createEmptyState(600, 400)>>
       /\ historyIndexRef = 0
  /\ (lastOp = "load" /\ dropped # NULL) =>
       /\ ~crashed
       /\ NothingInProgress
       /\ panOffsetRef = Pt(0, 0)
       /\ stateRef = LoadedDocument
       /\ historyRef = <<LoadedDocument>>
       /\ historyIndexRef = 0

\* the switch unmounted a document with a text element, two history entries
\* and an open text editor, and the note opened has no sketch
C28_Witness ==
  /\ lastOp = "load"
  /\ dropped # NULL
  /\ dropped.editing
  /\ Len(dropped.doc.textElements) >= 1
  /\ Len(dropped.log) >= 2
  /\ savedData.json = <<"none">>
  /\ stateRef = createEmptyState(600, 400)

\* the switch unmounted a panned canvas
C28_PannedSwitch ==
  /\ lastOp = "load"
  /\ dropped # NULL
  /\ dropped.pan # Pt(0, 0)
  /\ panOffsetRef = Pt(0, 0)

\* the step handled a request of a user for a note of theirs that was in the
\* trash
OnTrashedNote(routes) ==
  /\ request' # NULL
  /\ request'.route \in routes
  /\ request'.user # NULL
  /\ RowOf(request'.id, request'.user)
  /\ notes[request'.id].deleted_at # NULL

\* C29: a soft-deleted note is not found by the note operations other than
\* restore, permanent delete and the trash listing: GET and PUT
\* /api/notes/[id] and POST /api/notes/[id]/pin answer 404 and leave the note
\* as it is, and GET /api/notes does not list the note
C29_SoftDeletedNotFound ==
  /\ [][OnTrashedNote({"GET /api/notes/[id]", "PUT /api/notes/[id]",
                       "POST /api/notes/[id]/pin"})
         => /\ response'.status = 404
            /\ notes' = notes]_vars
  /\ []((request # NULL /\ request.route = "GET /api/notes"
           /\ response.status = 200)
         => \A id \in response.body : notes[id].deleted_at = NULL)

\* GET /api/notes does not list the notes of the trash
C29_ListHidesTrash ==
  (request # NULL /\ request.route = "GET /api/notes" /\ response.status = 200)
    => \A id \in response.body : notes[id].deleted_at = NULL

\* a list was asked for by a user who has a note in the trash
C29_ListWitness ==
  /\ request # NULL
  /\ request.route = "GET /api/notes"
  /\ response.status = 200
  /\ trashedNotes(request.user) # {}
  /\ response.body # {}

HardDeletes == {"DELETE /api/notes/[id]/permanent", "DELETE /api/trash"}

\* C30: hard deletion removes no note that is not in the trash: DELETE
\* /api/notes/[id]/permanent on an active note answers 404 and the note
\* remains, DELETE /api/trash removes the notes of the caller that are in the
\* trash and no other note, a note is created active, and a note leaves the
\* table only from the trash, by one of the two hard deletes of its owner
C30_HardDeleteOnlyTrash ==
  [][request' # NULL =>
       /\ \A id \in NoteIds :
            (notes[id] # NULL /\ notes'[id] = NULL) =>
              /\ notes[id].deleted_at # NULL
              /\ request'.route \in HardDeletes
              /\ request'.user # NULL
              /\ request'.user.id = notes[id].user_id
       /\ \A id \in NoteIds :
            (notes[id] = NULL /\ notes'[id] # NULL) =>
              notes'[id].deleted_at = NULL
       /\ (/\ request'.route = "DELETE /api/notes/[id]/permanent"
           /\ request'.user # NULL
           /\ RowOf(request'.id, request'.user)
           /\ notes[request'.id].deleted_at = NULL) =>
             /\ response'.status = 404
             /\ notes' = notes
       /\ (request'.route = "DELETE /api/trash" /\ request'.user # NULL) =>
             /\ response'.status = 200
             /\ response'.body.deleted = Cardinality(trashedNotes(request'.user))
             /\ notes' = [id \in NoteIds |->
                            IF id \in trashedNotes(request'.user)
                              THEN NULL ELSE notes[id]]]_vars

\* a permanent delete of an active note was answered 404 and the note is in
\* place, after another note was destroyed from the trash
C30_Witness ==
  /\ request # NULL
  /\ request.route = "DELETE /api/notes/[id]/permanent"
  /\ request.user # NULL
  /\ response.status = 404
  /\ RowOf(request.id, request.user)
  /\ notes[request.id].deleted_at = NULL
  /\ \E id \in usedIds : notes[id] = NULL

\* DELETE /api/trash removed one note and left an active note of the caller
C30_TrashEmptied ==
  /\ request # NULL
  /\ request.route = "DELETE /api/trash"
  /\ request.user # NULL
  /\ response.body.deleted = 1
  /\ \E id \in NoteIds : RowOf(id, request.user) /\ notes[id].deleted_at = NULL

\* the routes that name one note
NoteRoutes ==
  {"GET /api/notes/[id]", "PUT /api/notes/[id]", "DELETE /api/notes/[id]",
   "POST /api/notes/[id]/pin", "POST /api/notes/[id]/restore",
   "DELETE /api/notes/[id]/permanent"}

\* the notes that belong to a user other than the caller
OthersNotes(user) ==
  {id \in NoteIds : notes[id] # NULL /\ notes[id].user_id # user.id}

\* C31: a request of user U never returns, updates, soft-deletes, restores,
\* pins or permanently deletes a note of another user: it is answered 404,
\* no request of U changes a note of another user, and the list and the
\* trash listing hold notes of U only
C31_OwnNotesOnly ==
  /\ [][(request' # NULL /\ request'.user # NULL) =>
          /\ \A id \in OthersNotes(request'.user) : notes'[id] = notes[id]
          /\ (/\ request'.route \in NoteRoutes
              /\ request'.id \in OthersNotes(request'.user)) =>
                /\ response'.status = 404
                /\ response'.body = "Note not found"
                /\ notes' = notes
                /\ images' = images]_vars
  /\ []((/\ request # NULL
          /\ request.route \in {"GET /api/notes", "GET /api/trash"}
          /\ response.status = 200)
         => \A id \in response.body : RowOf(id, request.user))

\* a user asked to update the note of another user, was answered 404, and
\* the note is in place
C31_Witness ==
  /\ request # NULL
  /\ request.route = "PUT /api/notes/[id]"
  /\ request.user # NULL
  /\ request.id \in OthersNotes(request.user)
  /\ response.status = 404
  /\ \E id \in NoteIds : RowOf(id, request.user)

\* the requests of an ip counted in its current window: none when there is no
\* entry or the reset time of its window has passed
Counted(ip) ==
  IF ipRequests[ip] = NULL \/ now > ipRequests[ip].resetTime
    THEN 0 ELSE ipRequests[ip].count

\* C32: rateLimit(ip, {windowMs, max}) succeeds exactly when fewer than max
\* requests of the ip are counted in its current window; it reports
\* remaining = max - count on success and 0 on failure, leaves the entries
\* of the other ips alone, and the first request after the reset time has
\* passed starts a window with count 1 that ends windowMs later
C32_RateLimit ==
  [][limited' # NULL =>
       LET ip == limited'.ip
           max == limited'.options.max
       IN /\ limited'.success <=> Counted(ip) < max
          /\ limited'.success =>
               /\ ipRequests'[ip].count = Counted(ip) + 1
               /\ limited'.remaining = max - ipRequests'[ip].count
          /\ ~limited'.success =>
               /\ limited'.remaining = 0
               /\ ipRequests'[ip] = ipRequests[ip]
          /\ \A other \in Ips \ {ip} : ipRequests'[other] = ipRequests[other]
          /\ (ipRequests[ip] # NULL /\ now > ipRequests[ip].resetTime) =>
               /\ limited'.success
               /\ ipRequests'[ip] =
                    [count |-> 1,
                     resetTime |-> now + limited'.options.windowMs]]_vars

\* an ip that had used up its window was let in again after the reset time,
\* while the other ip is at its limit
C32_Witness ==
  /\ limited # NULL
  /\ limited.success
  /\ limited.remaining = 0
  /\ limited.renewed
  /\ ipRequests[limited.ip].count = 1
  /\ \E other \in Ips \ {limited.ip} :
       /\ ipRequests[other] # NULL
       /\ ipRequests[other].count = 2
       /\ now <= ipRequests[other].resetTime

\* the step handled a reset request
ResetStep == authed' # NULL /\ authed'.route = "POST /api/auth/reset-password"

\* C33: a password-reset token changes a password at most once: a reset
\* succeeds only with a token that is in the table, unused and not expired,
\* every attempt with a token that a reset has used, that has expired or that
\* was never issued is answered 400 and leaves the users table as it is
C33_TokenOnce ==
  /\ [](\A token \in TokenIds : resetCount[token] <= 1)
  /\ [][ResetStep =>
          LET token == authed'.subject
          IN /\ authed'.status = 200 =>
                  /\ validToken(token)
                  /\ resetCount[token] = 0
                  /\ resetTokens'[token].used_at # NULL
             /\ authed'.status # 200 =>
                  /\ authed'.status = 400
                  /\ users' = users
             /\ (\/ token \notin TokenIds
                 \/ resetTokens[token] = NULL
                 \/ resetCount[token] >= 1
                 \/ resetTokens[token].expires_at <= now) =>
                  authed'.status = 400]_vars

\* a token that had changed the password to password-b was used again
\* before it expired, and was refused
C33_Witness ==
  /\ authed # NULL
  /\ authed.route = "POST /api/auth/reset-password"
  /\ authed.subject \in TokenIds
  /\ authed.status = 400
  /\ resetCount[authed.subject] = 1
  /\ resetTokens[authed.subject].expires_at > now
  /\ users[resetTokens[authed.subject].user_id].password_hash =
       hashPassword("password-b")

\* C34: a successful password reset adds exactly 1 to the token_version of
\* the user, and a session token signed before the reset is rejected by
\* getAuthUser from then on
C34_ResetInvalidatesSessions ==
  /\ [][(ResetStep /\ authed'.status = 200) =>
          LET userId == resetTokens[authed'.subject].user_id
          IN users'[userId].token_version = users[userId].token_version + 1]_vars
  /\ [](\A cookie \in cookies :
          cookie.resets < resetsOf(cookie.sub) => getAuthUser(cookie) = NULL)

\* a session token signed before a reset of the password of its user is
\* accepted by getAuthUser
C34_StaleSessionAccepted ==
  \E cookie \in cookies :
    /\ cookie.resets < resetsOf(cookie.sub)
    /\ getAuthUser(cookie) = [id |-> cookie.sub]

\* the request is for an API route that is not a public auth route
ProtectedApi(req) ==
  /\ startsWith(req.pathname, <<"/api/">>)
  /\ ~isPublicAuthRoute(req.pathname)

\* the Origin header is there and names the expected origin
OriginMatches(req) ==
  /\ req.origin # NULL
  /\ getExpectedOrigin(req) # NULL
  /\ req.origin = getExpectedOrigin(req)

\* the cookie holds a token that is signed, not expired and names a user
TokenValid(req) ==
  /\ req.token # NULL
  /\ req.token.signed
  /\ ~req.token.expired
  /\ req.token.sub # NULL

\* C35: a POST, PUT, DELETE or PATCH request to an API route outside the
\* public auth routes passes the middleware only with the expected Origin
\* and a valid token: a missing or mismatched Origin gives 403 even with a
\* valid token, otherwise a missing or invalid token gives 401; a GET request
\* is not origin-checked, and the public auth routes pass without either check
C35_Middleware ==
  mwRequest # NULL =>
    /\ (ProtectedApi(mwRequest)
          /\ toUpperCase(mwRequest.method) \in {"POST", "PUT", "DELETE", "PATCH"}) =>
         /\ mwResponse = MwNext <=>
              (OriginMatches(mwRequest) /\ TokenValid(mwRequest))
         /\ ~OriginMatches(mwRequest) => mwResponse = MwJson(403)
         /\ (OriginMatches(mwRequest) /\ ~TokenValid(mwRequest)) =>
              mwResponse = MwJson(401)
    /\ (ProtectedApi(mwRequest) /\ mwRequest.method = "GET") =>
         mwResponse = IF TokenValid(mwRequest) THEN MwNext ELSE MwJson(401)
    /\ (startsWith(mwRequest.pathname, <<"/api/">>)
          /\ isPublicAuthRoute(mwRequest.pathname)) =>
         mwResponse = MwNext

\* a DELETE of a notes route with a valid token and no Origin header was
\* answered 403
C35_Witness ==
  /\ mwRequest # NULL
  /\ mwRequest.pathname = <<"/api/", "notes", "/n1/pin">>
  /\ mwRequest.method = "DELETE"
  /\ mwRequest.origin = NULL
  /\ TokenValid(mwRequest)
  /\ mwResponse = MwJson(403)

\* what a reload would replace or reset: the live document, the history log,
\* the pan offset and the input in progress
LoadedOrInProgress ==
  <<stateRef, historyRef, historyIndexRef, canvasSize, panOffsetRef,
    panStartRef, isDrawingRef, currentStrokeRef, movingTextRef, textInput,
    isResizingRef, resizeStartRef, overlay>>

\* C36: after the initial load, a change of the sketchData prop, the fed-back
\* emitted document included, leaves the live document, the history log, the
\* pan offset and the input in progress as they are
C36_NoReload ==
  [][propChanged' # propChanged => UNCHANGED LoadedOrInProgress]_vars

\* the prop has changed after a commit was emitted, the log holds its two
\* entries and a text editor is open
C36_Witness ==
  /\ propChanged
  /\ emitted # <<>>
  /\ Len(historyRef) >= 2
  /\ textInput # NULL

\* the prop has changed and the canvas is panned
C36_PannedWitness ==
  /\ propChanged
  /\ panOffsetRef # Pt(0, 0)

\* no drag is in progress and every scheduled canvas-size update is applied
Quiescent ==
  /\ Mounted
  /\ pointer = "up"
  /\ ~isDrawingRef
  /\ movingTextRef = NULL
  /\ panStartRef = NULL
  /\ ~isResizingRef
  /\ ~sizePending

\* C37: whenever no drag is in progress and every scheduled canvas-size
\* update has been applied, the last emitted document is the serialization
\* of the live document; so the document emitted on resize release carries
\* the final canvas size even if the size update of the last resize move is
\* still pending when the release is handled
C37_EmittedIsLive ==
  (Quiescent /\ emitted # <<>>) => emitted = JSONStringify(stateRef)

\* a resize was released while the size update of its last move was pending:
\* the update has been applied since, and the emitted document has the size
\* from before the move
C37_StaleRelease ==
  /\ Quiescent
  /\ emitted # <<>>
  /\ JSONParse(emitted).canvasWidth # stateRef.canvasWidth
  /\ stateRef.canvasWidth = canvasSize.width

\* outside the resize handle the emitted document is the live one
C37_OtherSessions ==
  (Quiescent /\ emitted # <<>> /\ session # "resize") =>
    emitted = JSONStringify(stateRef)

\* a release that finds no size update pending emits the live document with
\* the final size
C37_SettledRelease ==
  [][(lastOp' = "resizeUp" /\ ~sizePending) =>
       /\ emitted' = JSONStringify(stateRef')
       /\ stateRef'.canvasWidth = canvasSize.width
       /\ stateRef'.canvasHeight = canvasSize.height]_vars

\* C38: provided save requests succeed, every change of the content of the
\* open note is eventually sent in a save request, also when the note is
\* switched or the workspace unmounted before the debounce delay has passed
C38_EventuallySaved ==
  (edited # sent) ~> (edited = sent)

\* a change was made and the workspace unmounted with the timer pending: the
\* change was sent in no request
C38_LostChange ==
  /\ ~workspaceMounted
  /\ edited # sent
  /\ edited # stored
  /\ timerRef = NULL
  /\ abortRef = NULL

\* while the workspace stays mounted and the content stays as it is, a
\* pending timer leads to a save request with that content
C38_DebounceSends ==
  \A content \in EditedContents :
    (timerRef = [content |-> content]) ~>
      (sent = content \/ workspaceContent # content \/ ~workspaceMounted)

====
